---- MODULE Spec2Model ----
(***************************************************************************)
(* A model of the virtio-gpu virgl backend of minigbm                      *)
(* (virtgpu_virgl.c): capability negotiation, the native and emulation     *)
(* support predicates, the emulated layout of multi-planar YUV buffers,    *)
(* the decomposition of lock rectangles into host transfers, the three-way *)
(* resource creation dispatch, and invalidate / flush.                     *)
(*                                                                         *)
(* Usage masks are sets of flag names, pixel formats are names, the        *)
(* host's format bitmasks are sets of host format names.                   *)
(***************************************************************************)
EXTENDS Integers, Sequences, FiniteSets, TLC

VARIABLES
    params,     \* params[]: the device parameters the transport reports
    build,      \* compile-time switches of the build
    host,       \* the capability set the host would answer a query with
    drv_state,  \* "closed" | "ready" | "init_failed"
    priv,       \* struct virgl_priv
    combos,     \* drv->combos: the combination table built by virgl_init
    bo,         \* struct bo: the buffer descriptor (bo->meta, bo->handle)
    op,         \* the last backend call: name, return value, host requests
    tpc,        \* per caller thread: position inside virgl_bo_create_blob
    tid,        \* per caller thread: cur_blob_id
    call        \* the last pure-function call: function, inputs, result

vars ==
    <<params, build, host, drv_state, priv, combos, bo, op, tpc, tid, call>>

(***************************************************************************)
(* Bounds of the model.                                                    *)
(***************************************************************************)
\* Largest logical width and height of a buffer in the buffer life cycle.
MaxDim == 2
\* Number of concurrent callers of virgl_bo_create_blob.
MaxThreads == 2
\* Blob creations per caller.
MaxBlobsPerThread == 2
\* Largest logical width / height fed to the layout and transfer functions.
MaxGeomW == 6
MaxGeomH == 6
\* Largest logical width fed to the layout function alone (past one 32-unit
\* alignment boundary).
MaxMetaW == 34
\* Longest modifier list handed to create-with-modifiers.
MaxMods == 2

(***************************************************************************)
(* Program constants.                                                      *)
(***************************************************************************)
PAGE_SIZE == 4096
TRIPLANAR_ALIGN == 32
EINVAL == 22
ENOMEM == 12
DRV_MAX_PLANES == 4
PIPE_TEXTURE_2D == 2
MESA_LLVMPIPE_TILE_SIZE == 64

(***************************************************************************)
(* Pixel formats and usage flags.                                          *)
(***************************************************************************)
render_target_formats ==
    <<"ABGR8888", "ARGB8888", "RGB565", "XBGR8888", "XRGB8888">>

dumb_texture_source_formats ==
    <<"R8", "R16", "YVU420", "NV12", "NV21", "YVU420_ANDROID",
      "ABGR2101010", "ABGR16161616F">>

texture_source_formats ==
    <<"NV12", "NV21", "R8", "R16", "RG88", "YVU420_ANDROID",
      "ABGR2101010", "ABGR16161616F">>

\* Every DRM format the backend names.
DrmFormats ==
    {"ABGR8888", "ARGB8888", "RGB565", "XBGR8888", "XRGB8888", "R8", "R16",
     "RG88", "YVU420", "NV12", "NV21", "YVU420_ANDROID", "ABGR2101010",
     "ABGR16161616F", "BGR888", "RGB888", "P010",
     "FLEX_IMPLEMENTATION_DEFINED", "FLEX_YCbCr_420_888"}

BO_USE_SW_MASK ==
    {"SW_READ_OFTEN", "SW_WRITE_OFTEN", "SW_READ_RARELY", "SW_WRITE_RARELY"}

BO_USE_NON_GPU_HW ==
    {"SCANOUT", "CAMERA_WRITE", "CAMERA_READ", "HW_VIDEO_ENCODER",
     "HW_VIDEO_DECODER", "SENSOR_DIRECT_DATA"}

\* use_flags & mask
HasAny(use_flags, mask) == use_flags \cap mask # {}

\* DIV_ROUND_UP(n, d) of util.h: ((n) + (d) - 1) / (d)
DIV_ROUND_UP(n, d) == (n + d - 1) \div d

\* ALIGN(a, b) of util.h for a power of two b: ((a) + (b) - 1) & ~((b) - 1)
ALIGN(a, b) == ((a + b - 1) \div b) * b

(***************************************************************************)
(* translate_format: DRM fourcc -> host (virgl) format code; "0" is the    *)
(* default branch (unhandled format).                                      *)
(***************************************************************************)
translate_format(drm_fourcc) ==
    CASE drm_fourcc \in {"BGR888", "RGB888"} -> "R8G8B8_UNORM"
      [] drm_fourcc = "XRGB8888" -> "B8G8R8X8_UNORM"
      [] drm_fourcc = "ARGB8888" -> "B8G8R8A8_UNORM"
      [] drm_fourcc = "XBGR8888" -> "R8G8B8X8_UNORM"
      [] drm_fourcc = "ABGR8888" -> "R8G8B8A8_UNORM"
      [] drm_fourcc = "ABGR16161616F" -> "R16G16B16A16_FLOAT"
      [] drm_fourcc = "ABGR2101010" -> "R10G10B10A2_UNORM"
      [] drm_fourcc = "RGB565" -> "B5G6R5_UNORM"
      [] drm_fourcc = "R8" -> "R8_UNORM"
      [] drm_fourcc = "R16" -> "R16_UNORM"
      [] drm_fourcc = "RG88" -> "R8G8_UNORM"
      [] drm_fourcc = "NV12" -> "NV12"
      [] drm_fourcc = "NV21" -> "NV21"
      [] drm_fourcc = "P010" -> "P010"
      [] drm_fourcc \in {"YVU420", "YVU420_ANDROID"} -> "YV12"
      [] OTHER -> "0"

\* virgl_bitmask_supports_format: the bit of the translated format is set.
virgl_bitmask_supports_format(supported, drm_format) ==
    LET virgl_format == translate_format(drm_format)
    IN  IF virgl_format = "0" THEN FALSE ELSE virgl_format \in supported

(***************************************************************************)
(* struct virgl_priv as calloc leaves it, and the host capability sets the *)
(* model draws the host's answer from.                                     *)
(***************************************************************************)
ZeroCaps == [max_version |-> 0, render |-> {}, sampler |-> {}, scanout |-> {}]

ZeroPriv ==
    [caps_is_v2 |-> 0, caps |-> ZeroCaps, host_gbm_enabled |-> FALSE,
     next_blob_id |-> 0]

RgbVirgl ==
    {"B8G8R8X8_UNORM", "B8G8R8A8_UNORM", "R8G8B8X8_UNORM", "R8G8B8A8_UNORM",
     "B5G6R5_UNORM"}

\* A host with its general buffer manager: samples the YUV formats itself.
HostGbm ==
    [max_version |-> 2, render |-> RgbVirgl,
     sampler |-> RgbVirgl \cup {"R8_UNORM", "R16_UNORM", "R8G8_UNORM", "NV12",
                                "NV21", "YV12"},
     scanout |-> {"B8G8R8X8_UNORM", "B8G8R8A8_UNORM", "NV12"}]

\* A host without it: no YUV format, the single-channel format is sampled.
HostNoGbm ==
    [max_version |-> 2, render |-> RgbVirgl,
     sampler |-> RgbVirgl \cup {"R8_UNORM", "R16_UNORM"},
     scanout |-> {"B8G8R8X8_UNORM"}]

\* A minimal host: one RGBA format only, not even the single-channel format.
HostMinimal ==
    [max_version |-> 1, render |-> {"R8G8B8A8_UNORM"},
     sampler |-> {"R8G8B8A8_UNORM"}, scanout |-> {}]

HostCaps == {HostGbm, HostNoGbm, HostMinimal}

(***************************************************************************)
(* virgl_supports_combination_natively                                     *)
(***************************************************************************)
virgl_supports_combination_natively(p, drm_format, use_flags) ==
    IF p.caps.max_version = 0 THEN TRUE
    ELSE IF "RENDERING" \in use_flags
            /\ ~virgl_bitmask_supports_format(p.caps.render, drm_format)
         THEN FALSE
    ELSE IF "TEXTURE" \in use_flags
            /\ ~virgl_bitmask_supports_format(p.caps.sampler, drm_format)
         THEN FALSE
    ELSE IF "SCANOUT" \in use_flags /\ p.caps_is_v2 = 1
            /\ ~virgl_bitmask_supports_format(p.caps.scanout, drm_format)
         THEN FALSE
    ELSE TRUE

(***************************************************************************)
(* virgl_supports_combination_through_emulation                            *)
(***************************************************************************)
virgl_supports_combination_through_emulation(p, drm_format, use_flags) ==
    IF p.host_gbm_enabled THEN FALSE
    ELSE IF HasAny(use_flags, {"RENDERING", "SCANOUT"}) THEN FALSE
    ELSE IF ~virgl_supports_combination_natively(p, "R8", use_flags) THEN FALSE
    ELSE drm_format \in {"NV12", "NV21", "YVU420", "YVU420_ANDROID"}


\* Mutant: the chroma height rounded down.
c_plane_height_floor(original_height) == original_height \div 2

(***************************************************************************)
(* virgl_get_emulated_metadata.  meta is bo->meta; uninit is the content   *)
(* of the caller's struct bo_metadata before the call, which the default   *)
(* branch leaves in place (only the format is written).                    *)
(***************************************************************************)
\* c_plane_height = DIV_ROUND_UP(original_height, 2)
c_plane_height_of(original_height) == DIV_ROUND_UP(original_height, 2)


\* Mutant: the tri-planar width left unaligned.
triplanar_width_unaligned(original_width) == original_width

\* metadata->width = ALIGN(original_width, 32) of the tri-planar branch
triplanar_width(original_width) == ALIGN(original_width, TRIPLANAR_ALIGN)

virgl_get_emulated_metadata(meta, uninit) ==
    LET original_width == meta.width
        original_height == meta.height
    IN  IF meta.format \in {"NV12", "NV21"}
        THEN LET y_plane_height == original_height
                 c_plane_height == c_plane_height_of(original_height)
                 width == original_width
                 height == y_plane_height + c_plane_height
                 size0 == width * y_plane_height
                 size1 == width * c_plane_height
             IN  [format |-> "R8", num_planes |-> 2,
                  width |-> width, height |-> height,
                  strides |-> <<width, width>>,
                  offsets |-> <<0, 0 + size0>>,
                  sizes |-> <<size0, size1>>,
                  total_size |-> width * height]
        ELSE IF meta.format \in {"YVU420", "YVU420_ANDROID"}
        THEN LET y_plane_height == original_height
                 c_plane_height == c_plane_height_of(original_height)
                 width == triplanar_width(original_width)
                 height == y_plane_height + (2 * c_plane_height)
                 size0 == width * original_height
                 size1 == width * c_plane_height
                 size2 == width * c_plane_height
             IN  [format |-> "R8", num_planes |-> 3,
                  width |-> width, height |-> height,
                  strides |-> <<width, width, width>>,
                  offsets |-> <<0, 0 + size0, (0 + size0) + size1>>,
                  sizes |-> <<size0, size1, size2>>,
                  total_size |-> width * height]
        ELSE [uninit EXCEPT !.format = "R8"]

(***************************************************************************)
(* virgl_get_emulated_transfers_params.  box is the lock rectangle; uninit *)
(* holds what the caller's stack held in emulated_metadata and in          *)
(* xfer_params: a format outside the switch leaves xfer_params unwritten.  *)
(***************************************************************************)
Rect(x, y, w, h) == [x |-> x, y |-> y, width |-> w, height |-> h]


\* Mutant: width and height of the buffer swapped in the comparison.
is_full_box_swapped(meta, box) ==
    box.x = 0 /\ box.y = 0 /\ box.width = meta.height
    /\ box.height = meta.width

\* The test for a lock of the whole buffer.
is_full_box(meta, box) ==
    box.x = 0 /\ box.y = 0 /\ box.width = meta.width
    /\ box.height = meta.height

\* Mutant: the Cr plane placed at the Cb plane (its offset below the Cb
\* plane is lost).
virgl_get_emulated_transfers_params_cr_at_cb(meta, box, uninit) ==
    IF is_full_box(meta, box)
    THEN LET emulated_metadata ==
                 virgl_get_emulated_metadata(meta, uninit.metadata)
         IN  [xfers_needed |-> 1,
              xfer_boxes |-> <<Rect(0, 0, emulated_metadata.width,
                                    emulated_metadata.height)>>]
    ELSE IF meta.format \in {"NV12", "NV21"}
    THEN [xfers_needed |-> 2,
          xfer_boxes |->
              <<Rect(box.x, box.y, box.width, box.height),
                Rect(box.x, box.y + meta.height, box.width,
                     DIV_ROUND_UP(box.height, 2))>>]
    ELSE IF meta.format \in {"YVU420", "YVU420_ANDROID"}
    THEN [xfers_needed |-> 3,
          xfer_boxes |->
              <<Rect(box.x, box.y, box.width, box.height),
                Rect(box.x, box.y + meta.height,
                     DIV_ROUND_UP(box.width, 2), DIV_ROUND_UP(box.height, 2)),
                Rect(box.x, box.y + meta.height,
                     DIV_ROUND_UP(box.width, 2),
                     DIV_ROUND_UP(box.height, 2))>>]
    ELSE uninit.xfer_params

virgl_get_emulated_transfers_params(meta, box, uninit) ==
    IF is_full_box(meta, box)
    THEN LET emulated_metadata ==
                 virgl_get_emulated_metadata(meta, uninit.metadata)
         IN  [xfers_needed |-> 1,
              xfer_boxes |-> <<Rect(0, 0, emulated_metadata.width,
                                    emulated_metadata.height)>>]
    ELSE IF meta.format \in {"NV12", "NV21"}
    THEN LET y_plane_height == meta.height
         IN  [xfers_needed |-> 2,
              xfer_boxes |->
                  <<Rect(box.x, box.y, box.width, box.height),
                    Rect(box.x, box.y + y_plane_height, box.width,
                         DIV_ROUND_UP(box.height, 2))>>]
    ELSE IF meta.format \in {"YVU420", "YVU420_ANDROID"}
    THEN LET y_plane_height == meta.height
             c_plane_height == DIV_ROUND_UP(meta.height, 2)
         IN  [xfers_needed |-> 3,
              xfer_boxes |->
                  <<Rect(box.x, box.y, box.width, box.height),
                    Rect(box.x, box.y + y_plane_height,
                         DIV_ROUND_UP(box.width, 2),
                         DIV_ROUND_UP(box.height, 2)),
                    Rect(box.x, box.y + y_plane_height + c_plane_height,
                         DIV_ROUND_UP(box.width, 2),
                         DIV_ROUND_UP(box.height, 2))>>]
    ELSE uninit.xfer_params

(***************************************************************************)
(* Values of uninitialised stack storage: what a read of a never written   *)
(* struct bo_metadata / struct virtio_transfers_params may yield.          *)
(***************************************************************************)
UninitMetadata ==
    {[format |-> "0", num_planes |-> 0, width |-> 0, height |-> 0,
      strides |-> <<>>, offsets |-> <<>>, sizes |-> <<>>, total_size |-> 0],
     [format |-> "R8", num_planes |-> 1, width |-> 7, height |-> 3,
      strides |-> <<5>>, offsets |-> <<9>>, sizes |-> <<11>>,
      total_size |-> 13]}

UninitXferParams ==
    {[xfers_needed |-> 0, xfer_boxes |-> <<>>],
     [xfers_needed |-> 2, xfer_boxes |-> <<Rect(3, 1, 7, 5), Rect(0, 9, 1, 1)>>]}

Uninit == [metadata : UninitMetadata, xfer_params : UninitXferParams]

(***************************************************************************)
(* The choice between the caller's rectangle and the emulated transfers in *)
(* virgl_bo_invalidate and virgl_bo_flush, with its assertion.  The result *)
(* is the set of outcomes: a failed assertion aborts the call, or, in a    *)
(* build without assertions, execution goes on into the emulated branch.   *)
(***************************************************************************)
xfer_params_of(p, meta, rect) ==
    IF virgl_supports_combination_natively(p, meta.format, meta.use_flags)
    THEN {[abort |-> FALSE, xfers_needed |-> 1, xfer_boxes |-> <<rect>>]}
    ELSE LET emulated ==
                 {[abort |-> FALSE, xfers_needed |-> x.xfers_needed,
                   xfer_boxes |-> x.xfer_boxes] :
                     x \in {virgl_get_emulated_transfers_params(meta, rect, u) :
                                u \in Uninit}}
         IN  IF virgl_supports_combination_through_emulation(
                    p, meta.format, meta.use_flags)
             THEN emulated
             ELSE {[abort |-> TRUE, xfers_needed |-> 0, xfer_boxes |-> <<>>]}
                  \cup emulated

(***************************************************************************)
(* handle_flag and compute_virgl_bind_flags.  s is the pair of the working *)
(* use flags and the bind accumulator; the result's flag field is the      *)
(* residue the function logs as unhandled.                                 *)
(***************************************************************************)
\* Mutant: the bind bit is set but the usage bit is not cleared.
handle_flag_keeps_flag(s, check_flag, virgl_bind) ==
    IF check_flag \in s.flag
    THEN [flag |-> s.flag, bind |-> s.bind \cup {virgl_bind}]
    ELSE s

handle_flag(s, check_flag, virgl_bind) ==
    IF check_flag \in s.flag
    THEN [flag |-> s.flag \ {check_flag}, bind |-> s.bind \cup {virgl_bind}]
    ELSE s

\* Mutant: the read and write rules run unconditionally, without the
\* protected test and without the priority of OFTEN over RARELY.
compute_virgl_bind_state_no_priority(use_flags) ==
    LET s0 == [flag |-> use_flags, bind |-> {"SHARED"}]
        s1 == handle_flag(s0, "TEXTURE", "SAMPLER_VIEW")
        s2 == handle_flag(s1, "RENDERING", "RENDER_TARGET")
        s3 == handle_flag(s2, "SCANOUT", "SCANOUT")
        s4 == handle_flag(s3, "CURSOR", "CURSOR")
        s5 == handle_flag(s4, "LINEAR", "LINEAR")
        s6 == handle_flag(s5, "SENSOR_DIRECT_DATA", "LINEAR")
        s7 == handle_flag(s6, "GPU_DATA_BUFFER", "LINEAR")
        s8 == handle_flag(s7, "FRONT_RENDERING", "LINEAR")
        p1 == handle_flag(s8, "PROTECTED", "MINIGBM_PROTECTED")
        p2 == handle_flag(p1, "SW_READ_OFTEN", "MINIGBM_SW_READ_OFTEN")
        p3 == handle_flag(p2, "SW_READ_RARELY", "MINIGBM_SW_READ_RARELY")
        p4 == handle_flag(p3, "SW_WRITE_OFTEN", "MINIGBM_SW_WRITE_OFTEN")
        s9 == handle_flag(p4, "SW_WRITE_RARELY", "MINIGBM_SW_WRITE_RARELY")
        s10 == handle_flag(s9, "CAMERA_WRITE", "MINIGBM_CAMERA_WRITE")
        s11 == handle_flag(s10, "CAMERA_READ", "MINIGBM_CAMERA_READ")
        s12 == handle_flag(s11, "HW_VIDEO_DECODER", "MINIGBM_HW_VIDEO_DECODER")
        s13 == handle_flag(s12, "HW_VIDEO_ENCODER", "MINIGBM_HW_VIDEO_ENCODER")
    IN  s13

compute_virgl_bind_state(use_flags) ==
    LET s0 == [flag |-> use_flags, bind |-> {"SHARED"}]
        s1 == handle_flag(s0, "TEXTURE", "SAMPLER_VIEW")
        s2 == handle_flag(s1, "RENDERING", "RENDER_TARGET")
        s3 == handle_flag(s2, "SCANOUT", "SCANOUT")
        s4 == handle_flag(s3, "CURSOR", "CURSOR")
        s5 == handle_flag(s4, "LINEAR", "LINEAR")
        s6 == handle_flag(s5, "SENSOR_DIRECT_DATA", "LINEAR")
        s7 == handle_flag(s6, "GPU_DATA_BUFFER", "LINEAR")
        s8 == handle_flag(s7, "FRONT_RENDERING", "LINEAR")
        s9 == IF "PROTECTED" \in s8.flag
              THEN handle_flag(s8, "PROTECTED", "MINIGBM_PROTECTED")
              ELSE LET r == IF "SW_READ_OFTEN" \in s8.flag
                            THEN handle_flag(s8, "SW_READ_OFTEN",
                                             "MINIGBM_SW_READ_OFTEN")
                            ELSE handle_flag(s8, "SW_READ_RARELY",
                                             "MINIGBM_SW_READ_RARELY")
                   IN  IF "SW_WRITE_OFTEN" \in r.flag
                       THEN handle_flag(r, "SW_WRITE_OFTEN",
                                        "MINIGBM_SW_WRITE_OFTEN")
                       ELSE handle_flag(r, "SW_WRITE_RARELY",
                                        "MINIGBM_SW_WRITE_RARELY")
        s10 == handle_flag(s9, "CAMERA_WRITE", "MINIGBM_CAMERA_WRITE")
        s11 == handle_flag(s10, "CAMERA_READ", "MINIGBM_CAMERA_READ")
        s12 == handle_flag(s11, "HW_VIDEO_DECODER", "MINIGBM_HW_VIDEO_DECODER")
        s13 == handle_flag(s12, "HW_VIDEO_ENCODER", "MINIGBM_HW_VIDEO_ENCODER")
    IN  s13

compute_virgl_bind_flags(use_flags) == compute_virgl_bind_state(use_flags).bind


\* Mutant: the YUV formats accepted whatever the CPU usage.
blob_format_ok_any_usage(format, use_flags) ==
    format \in {"R8", "YVU420_ANDROID", "NV12"}

(***************************************************************************)
(* should_use_blob.  next is whether the build defines VIRTIO_GPU_NEXT.    *)
(***************************************************************************)
\* The switch on the format at the end of should_use_blob.
blob_format_ok(format, use_flags) ==
    IF format = "R8" THEN TRUE
    ELSE IF format \in {"YVU420_ANDROID", "NV12"}
         THEN ~HasAny(use_flags, BO_USE_SW_MASK)
    ELSE FALSE

should_use_blob(p, next, format, use_flags) ==
    IF ~next THEN FALSE
    ELSE IF ~p.host_gbm_enabled THEN FALSE
    ELSE IF ~HasAny(use_flags, {"SW_READ_OFTEN", "SW_WRITE_OFTEN", "LINEAR",
                                "GPU_DATA_BUFFER"} \cup BO_USE_NON_GPU_HW)
         THEN FALSE
    ELSE blob_format_ok(format, use_flags)

(***************************************************************************)
(* The generic helpers of drv.c / drv_helpers.c the backend calls:         *)
(* drv_num_planes_from_format, drv_stride_from_format, drv_bo_from_format  *)
(* (stride alignment 1) and drv_bo_new.                                    *)
(***************************************************************************)
drv_num_planes_from_format(format) ==
    CASE format \in {"NV12", "NV21", "P010"} -> 2
      [] format \in {"YVU420", "YVU420_ANDROID"} -> 3
      [] format \in {"FLEX_IMPLEMENTATION_DEFINED", "FLEX_YCbCr_420_888"} -> 0
      [] OTHER -> 1

drv_bytes_per_pixel_from_format(format) ==
    CASE format \in {"R8", "NV12", "NV21", "YVU420", "YVU420_ANDROID"} -> 1
      [] format \in {"R16", "RG88", "RGB565", "P010"} -> 2
      [] format \in {"BGR888", "RGB888"} -> 3
      [] format = "ABGR16161616F" -> 8
      [] OTHER -> 4

drv_stride_from_format(format, width) ==
    LET stride == width * drv_bytes_per_pixel_from_format(format)
    IN  IF format = "YVU420_ANDROID" THEN ALIGN(stride, 32) ELSE stride

drv_bo_from_format(format, stride, height) ==
    LET n == drv_num_planes_from_format(format)
        pstride(i) ==
            IF i > n THEN 0
            ELSE IF i = 1 THEN stride
            ELSE IF format = "YVU420" THEN DIV_ROUND_UP(stride, 2)
            ELSE IF format = "YVU420_ANDROID"
                 THEN ALIGN(DIV_ROUND_UP(stride, 2), 16)
            ELSE stride
        psize(i) ==
            IF i > n THEN 0
            ELSE IF i = 1 THEN pstride(i) * height
            ELSE pstride(i) * DIV_ROUND_UP(height, 2)
        poffset(i) ==
            IF i > n THEN 0
            ELSE IF i = 1 THEN 0
            ELSE IF i = 2 THEN psize(1)
            ELSE psize(1) + psize(2)
    IN  [num_planes |-> n,
         strides |-> <<pstride(1), pstride(2), pstride(3), pstride(4)>>,
         offsets |-> <<poffset(1), poffset(2), poffset(3), poffset(4)>>,
         sizes |-> <<psize(1), psize(2), psize(3), psize(4)>>,
         total_size |-> psize(1) + psize(2) + psize(3)]

NoBo ==
    [state |-> "none", kind |-> "unallocated", width |-> 0, height |-> 0,
     format |-> "0", use_flags |-> {}, num_planes |-> 0,
     strides |-> <<0, 0, 0, 0>>, offsets |-> <<0, 0, 0, 0>>,
     sizes |-> <<0, 0, 0, 0>>, total_size |-> 0, tiling |-> {}, handle |-> 0,
     covered |-> FALSE]

drv_bo_new(width, height, format, use_flags) ==
    [NoBo EXCEPT !.state = "new", !.width = width, !.height = height,
                 !.format = format, !.use_flags = use_flags,
                 !.num_planes = drv_num_planes_from_format(format)]

\* The fields of the buffer descriptor (without the model's bookkeeping).
Descriptor(b) ==
    [width |-> b.width, height |-> b.height, format |-> b.format,
     use_flags |-> b.use_flags, num_planes |-> b.num_planes,
     strides |-> b.strides, offsets |-> b.offsets, sizes |-> b.sizes,
     total_size |-> b.total_size, tiling |-> b.tiling, handle |-> b.handle]

(***************************************************************************)
(* The host transport: a request either succeeds or fails with errno set.  *)
(***************************************************************************)
\* errno of a failed request.
HostErrnos == {ENOMEM}
\* The handle the host returns for a created resource.
HostHandles == {1}

(***************************************************************************)
(* virgl_get_caps.  caps0 is the caller's capability storage, h the        *)
(* capability set of the host, ok1 / ok2 whether the first / second query  *)
(* succeeds.  A version 1 answer fills the version 1 part only.            *)
(***************************************************************************)
CapsAnswer(caps0, h, cap_set_id) ==
    IF cap_set_id = 2 THEN h
    ELSE [caps0 EXCEPT !.max_version = h.max_version, !.render = h.render,
                       !.sampler = h.sampler]

GetCapsReq(cap_set_id, ok) ==
    [req |-> "GET_CAPS", cap_set_id |-> cap_set_id, ok |-> ok]


\* Mutant: no fallback to the version 1 query.
virgl_get_caps_no_fallback(pa, caps0, h, ok1, ok2) ==
    LET first_id == IF pa.capset_fix THEN 2 ELSE 1
        first_v2 == IF pa.capset_fix THEN 1 ELSE 0
    IN  IF ok1
        THEN [caps |-> CapsAnswer(caps0, h, first_id), caps_is_v2 |-> first_v2,
              ret |-> 0, reqs |-> <<GetCapsReq(first_id, TRUE)>>]
        ELSE [caps |-> caps0, caps_is_v2 |-> 0, ret |-> -1,
              reqs |-> <<GetCapsReq(first_id, FALSE)>>]

virgl_get_caps(pa, caps0, h, ok1, ok2) ==
    LET first_id == IF pa.capset_fix THEN 2 ELSE 1
        first_v2 == IF pa.capset_fix THEN 1 ELSE 0
    IN  IF ok1
        THEN [caps |-> CapsAnswer(caps0, h, first_id), caps_is_v2 |-> first_v2,
              ret |-> 0, reqs |-> <<GetCapsReq(first_id, TRUE)>>]
        ELSE IF ok2
        THEN [caps |-> CapsAnswer(caps0, h, 1), caps_is_v2 |-> 0, ret |-> 0,
              reqs |-> <<GetCapsReq(first_id, FALSE), GetCapsReq(1, TRUE)>>]
        ELSE [caps |-> caps0, caps_is_v2 |-> 0, ret |-> -1,
              reqs |-> <<GetCapsReq(first_id, FALSE), GetCapsReq(1, FALSE)>>]

(***************************************************************************)
(* virgl_init_params_and_caps: the context after the queries, and the      *)
(* requests issued.                                                        *)
(***************************************************************************)
virgl_init_params_and_caps(pa, p, h, ok1, ok2) ==
    IF pa.p3d
    THEN LET g == virgl_get_caps(pa, p.caps, h, ok1, ok2)
             q == [p EXCEPT !.caps = g.caps, !.caps_is_v2 = g.caps_is_v2]
         IN  [priv |-> [q EXCEPT !.host_gbm_enabled =
                            q.caps.max_version > 0
                            /\ virgl_supports_combination_natively(
                                   q, "NV12", {"TEXTURE"})],
              reqs |-> g.reqs]
    ELSE [priv |-> p, reqs |-> <<>>]

(***************************************************************************)
(* The three creation paths.  Each operator gives the set of outcomes of   *)
(* one call: the descriptor and context at return, the return value and    *)
(* the host requests issued.                                               *)
(***************************************************************************)
Outcome(b, p, ret, path, reqs) ==
    [bo |-> b, priv |-> p, ret |-> ret, path |-> path, reqs |-> reqs]


\* Mutant: the increment is lost.
fetch_without_add(counter) == [old |-> counter, new |-> counter]

\* atomic_fetch_add(&priv->next_blob_id, 1): the value read, the value left.
atomic_fetch_add(counter) == [old |-> counter, new |-> counter + 1]

\* The descriptor virgl_bo_create_blob has written before its host request.
blob_layout(b, blob_flags) ==
    LET stride == drv_stride_from_format(b.format, b.width)
        l == drv_bo_from_format(b.format, stride, b.height)
    IN  [b EXCEPT !.num_planes = l.num_planes, !.strides = l.strides,
                  !.offsets = l.offsets, !.sizes = l.sizes,
                  !.total_size = ALIGN(l.total_size, PAGE_SIZE),
                  !.tiling = blob_flags]

blob_flags_of(b) ==
    {"USE_SHAREABLE", "USE_CROSS_DEVICE"}
    \cup (IF HasAny(b.use_flags, BO_USE_SW_MASK \cup {"GPU_DATA_BUFFER"})
          THEN {"USE_MAPPABLE"} ELSE {})

BlobReq(b, cur_blob_id, blob_flags, ok) ==
    [req |-> "RESOURCE_CREATE_BLOB", target |-> PIPE_TEXTURE_2D,
     width |-> b.width, height |-> b.height,
     format |-> translate_format(b.format),
     bind |-> compute_virgl_bind_flags(b.use_flags),
     size |-> b.total_size, blob_flags |-> blob_flags,
     blob_id |-> cur_blob_id, ok |-> ok]


\* Mutant: the handle is stored before the status of the request is tested.
virgl_bo_create_blob_early_handle(p, b) ==
    LET blob_flags == blob_flags_of(b)
        fa == atomic_fetch_add(p.next_blob_id)
        q == [p EXCEPT !.next_blob_id = fa.new]
        b1 == blob_layout(b, blob_flags)
    IN  {Outcome([b1 EXCEPT !.state = IF ok THEN "created" ELSE "failed",
                            !.kind = IF ok THEN "blob" ELSE @,
                            !.handle = h],
                 q, IF ok THEN 0 ELSE -ENOMEM, "blob",
                 <<BlobReq(b1, fa.old, blob_flags, ok)>>) :
             h \in HostHandles, ok \in BOOLEAN}

virgl_bo_create_blob(p, b) ==
    LET blob_flags == blob_flags_of(b)
        fa == atomic_fetch_add(p.next_blob_id)
        cur_blob_id == fa.old
        q == [p EXCEPT !.next_blob_id = fa.new]
        b1 == blob_layout(b, blob_flags)
    IN  {Outcome([b1 EXCEPT !.state = "failed"], q, -e, "blob",
                 <<BlobReq(b1, cur_blob_id, blob_flags, FALSE)>>) :
             e \in HostErrnos}
        \cup
        {Outcome([b1 EXCEPT !.state = "created", !.kind = "blob",
                            !.handle = h], q, 0, "blob",
                 <<BlobReq(b1, cur_blob_id, blob_flags, TRUE)>>) :
             h \in HostHandles}

\* Copy of the first n planes of the emulated layout into the descriptor.
CopyPlanes(old, new, n) ==
    [i \in 1..DRV_MAX_PLANES |->
        IF i <= n /\ i <= Len(new) THEN new[i] ELSE old[i]]

ResCreateReq(format, use_flags, width, height, total_size, ok) ==
    [req |-> "RESOURCE_CREATE", target |-> PIPE_TEXTURE_2D,
     format |-> translate_format(format),
     bind |-> compute_virgl_bind_flags(use_flags),
     width |-> width, height |-> height,
     size |-> ALIGN(total_size, PAGE_SIZE), ok |-> ok]

\* The layouts virgl_3d_bo_create may have written when it reaches its host
\* request: [bo, format, width, height] of the request; abort marks the
\* failed assertion.
layouts_3d(p, b, width, height, format, use_flags) ==
    IF virgl_supports_combination_natively(p, format, use_flags)
    THEN LET stride == drv_stride_from_format(format, width)
             l == drv_bo_from_format(format, stride, height)
         IN  {[abort |-> FALSE,
               bo |-> [b EXCEPT !.num_planes = l.num_planes,
                                !.strides = l.strides, !.offsets = l.offsets,
                                !.sizes = l.sizes,
                                !.total_size = l.total_size],
               format |-> format, width |-> width, height |-> height]}
    ELSE LET emulated ==
                 {[abort |-> FALSE,
                   bo |-> [b EXCEPT
                             !.strides = CopyPlanes(b.strides, m.strides,
                                                    m.num_planes),
                             !.offsets = CopyPlanes(b.offsets, m.offsets,
                                                    m.num_planes),
                             !.sizes = CopyPlanes(b.sizes, m.sizes,
                                                  m.num_planes),
                             !.total_size = m.total_size],
                   format |-> m.format, width |-> m.width,
                   height |-> m.height] :
                     m \in {virgl_get_emulated_metadata(b, u) :
                                u \in UninitMetadata}}
         IN  IF virgl_supports_combination_through_emulation(
                    p, format, use_flags)
             THEN emulated
             ELSE {[abort |-> TRUE, bo |-> b, format |-> format,
                    width |-> width, height |-> height]} \cup emulated

virgl_3d_bo_create(p, b, width, height, format, use_flags) ==
    UNION {
        IF l.abort
        THEN {Outcome([l.bo EXCEPT !.state = "aborted"], p, 0, "3d", <<>>)}
        ELSE {Outcome([l.bo EXCEPT !.state = "failed"], p, -1, "3d",
                      <<ResCreateReq(l.format, use_flags, l.width, l.height,
                                     l.bo.total_size, FALSE)>>)}
             \cup
             {Outcome([l.bo EXCEPT !.state = "created", !.kind = "3d",
                                   !.handle = h], p, 0, "3d",
                      <<ResCreateReq(l.format, use_flags, l.width, l.height,
                                     l.bo.total_size, TRUE)>>) :
                  h \in HostHandles}
        : l \in layouts_3d(p, b, width, height, format, use_flags)}

\* drv_dumb_bo_create_ex: the descriptor is written after the request
\* succeeded.
DumbReq(width, height, ok) ==
    [req |-> "MODE_CREATE_DUMB", width |-> width, height |-> height,
     ok |-> ok]

virgl_2d_dumb_bo_create(p, b, width, height, format, use_flags) ==
    LET w == IF b.format # "R8" THEN ALIGN(width, MESA_LLVMPIPE_TILE_SIZE)
             ELSE width
        h == IF b.format # "R8" THEN ALIGN(height, MESA_LLVMPIPE_TILE_SIZE)
             ELSE height
        l == drv_bo_from_format(format, drv_stride_from_format(format, w), h)
    IN  {Outcome([b EXCEPT !.state = "failed"], p, -e, "dumb",
                 <<DumbReq(w, h, FALSE)>>) : e \in HostErrnos}
        \cup
        {Outcome([b EXCEPT !.state = "created", !.kind = "dumb",
                           !.num_planes = l.num_planes, !.strides = l.strides,
                           !.offsets = l.offsets, !.sizes = l.sizes,
                           !.total_size = l.total_size, !.handle = hd],
                 p, 0, "dumb", <<DumbReq(w, h, TRUE)>>) :
             hd \in HostHandles}


\* Mutant: the 3D test made before the blob test.
create_path_3d_first(pa, bld, p, format, use_flags) ==
    IF pa.p3d THEN "3d"
    ELSE IF pa.resource_blob /\ pa.host_visible
            /\ should_use_blob(p, bld.VIRTIO_GPU_NEXT, format, use_flags)
    THEN "blob"
    ELSE "dumb"

(***************************************************************************)
(* virgl_bo_create: the dispatch.                                          *)
(***************************************************************************)
create_path(pa, bld, p, format, use_flags) ==
    IF pa.resource_blob /\ pa.host_visible
       /\ should_use_blob(p, bld.VIRTIO_GPU_NEXT, format, use_flags)
    THEN "blob"
    ELSE IF pa.p3d THEN "3d"
    ELSE "dumb"


\* Mutant: a failed blob creation falls back to the dumb path.
virgl_bo_create_fallback(pa, bld, p, b, width, height, format, use_flags) ==
    LET path == create_path(pa, bld, p, format, use_flags)
    IN  IF path = "blob"
        THEN UNION {
                 IF o.ret < 0
                 THEN {Outcome(o2.bo, o2.priv, o2.ret, o2.path,
                               o.reqs \o o2.reqs) :
                           o2 \in virgl_2d_dumb_bo_create(
                                      o.priv, o.bo, width, height, format,
                                      use_flags)}
                 ELSE {o}
                 : o \in virgl_bo_create_blob(p, b)}
        ELSE IF path = "3d"
        THEN virgl_3d_bo_create(p, b, width, height, format, use_flags)
        ELSE virgl_2d_dumb_bo_create(p, b, width, height, format, use_flags)

virgl_bo_create(pa, bld, p, b, width, height, format, use_flags) ==
    LET path == create_path(pa, bld, p, format, use_flags)
    IN  IF path = "blob" THEN virgl_bo_create_blob(p, b)
        ELSE IF path = "3d"
        THEN virgl_3d_bo_create(p, b, width, height, format, use_flags)
        ELSE virgl_2d_dumb_bo_create(p, b, width, height, format, use_flags)

(***************************************************************************)
(* virgl_bo_create_with_modifiers: the index of the modifier the loop      *)
(* returns at (0: the loop ends without a match).                          *)
(***************************************************************************)
RECURSIVE first_linear_from(_, _)
first_linear_from(modifiers, i) ==
    IF i > Len(modifiers) THEN 0
    ELSE IF modifiers[i] = "DRM_FORMAT_MOD_LINEAR" THEN i
    ELSE first_linear_from(modifiers, i + 1)


\* Mutant: only the first modifier is looked at.
first_linear_head_only(modifiers) ==
    IF Len(modifiers) >= 1 /\ modifiers[1] = "DRM_FORMAT_MOD_LINEAR" THEN 1
    ELSE 0

first_linear(modifiers) == first_linear_from(modifiers, 1)

virgl_bo_create_with_modifiers(pa, bld, p, b, width, height, format, modifiers) ==
    IF first_linear(modifiers) # 0
    THEN virgl_bo_create(pa, bld, p, b, width, height, format, {})
    ELSE {Outcome(b, p, -EINVAL, "none", <<>>)}

(***************************************************************************)
(* virgl_bo_invalidate and virgl_bo_flush.                                 *)
(***************************************************************************)
host_write_flags(b) ==
    {"RENDERING", "CAMERA_WRITE", "GPU_DATA_BUFFER"}
    \cup (IF b.format = "R8" THEN {"HW_VIDEO_ENCODER"}
          ELSE {"HW_VIDEO_DECODER"})

PrimeReq(handle, ok) ==
    [req |-> "PRIME_HANDLE_TO_FD", handle |-> handle, ok |-> ok]

\* is_arc_screen_capture_bo: the possible answers with the requests made.
is_arc_screen_capture_bo(b) ==
    IF b.num_planes # 1
       \/ b.format \notin {"ABGR8888", "ARGB8888", "XRGB8888", "XBGR8888"}
    THEN {[result |-> FALSE, reqs |-> <<>>]}
    ELSE {[result |-> FALSE, reqs |-> <<PrimeReq(b.handle, FALSE)>>],
          [result |-> FALSE, reqs |-> <<PrimeReq(b.handle, TRUE)>>],
          [result |-> TRUE, reqs |-> <<PrimeReq(b.handle, TRUE)>>]}

\* Mutant: the probe runs whatever bits the usage already has.
arc_probe_unguarded(b) ==
    {[bo |-> [b EXCEPT !.use_flags =
                 @ \cup {"ARC_SCREEN_CAP_PROBED"}
                   \cup (IF a.result THEN {"RENDERING"} ELSE {})],
      reqs |-> a.reqs] : a \in is_arc_screen_capture_bo(b)}

\* The screen-capture probe at the head of virgl_bo_invalidate.
arc_probe(b) ==
    IF ~HasAny(b.use_flags, {"ARC_SCREEN_CAP_PROBED", "RENDERING"})
    THEN {[bo |-> [b EXCEPT !.use_flags =
                       @ \cup {"ARC_SCREEN_CAP_PROBED"}
                         \cup (IF a.result THEN {"RENDERING"} ELSE {})],
           reqs |-> a.reqs] : a \in is_arc_screen_capture_bo(b)}
    ELSE {[bo |-> b, reqs |-> <<>>]}

XferReq(name, handle, box, ok) ==
    [req |-> name, bo_handle |-> handle, box |-> box, ok |-> ok]

WaitReq(handle, ok) == [req |-> "WAIT", handle |-> handle, ok |-> ok]

\* The first n transfers, all successful.
XfersOk(name, handle, xp, n) ==
    [i \in 1..n |-> XferReq(name, handle, xp.xfer_boxes[i], TRUE)]

\* Mutant: a failed transfer does not end the call before the wait.
transfer_and_wait_no_early_return(name, handle, xp, wait) ==
    {[ret |-> -e,
      reqs |-> Append(XfersOk(name, handle, xp, k - 1),
                      XferReq(name, handle, xp.xfer_boxes[k], FALSE))
               \o <<WaitReq(handle, TRUE)>>] :
         k \in 1..xp.xfers_needed, e \in HostErrnos}
    \cup
    (LET done == XfersOk(name, handle, xp, xp.xfers_needed)
     IN  IF wait
         THEN {[ret |-> -e, reqs |-> Append(done, WaitReq(handle, FALSE))] :
                   e \in HostErrnos}
              \cup {[ret |-> 0, reqs |-> Append(done, WaitReq(handle, TRUE))]}
         ELSE {[ret |-> 0, reqs |-> done]})

\* The transfer loop and the wait after it: return value and requests.
transfer_and_wait(name, handle, xp, wait) ==
    {[ret |-> -e,
      reqs |-> Append(XfersOk(name, handle, xp, k - 1),
                      XferReq(name, handle, xp.xfer_boxes[k], FALSE))] :
         k \in 1..xp.xfers_needed, e \in HostErrnos}
    \cup
    (LET done == XfersOk(name, handle, xp, xp.xfers_needed)
     IN  IF wait
         THEN {[ret |-> -e, reqs |-> Append(done, WaitReq(handle, FALSE))] :
                   e \in HostErrnos}
              \cup {[ret |-> 0, reqs |-> Append(done, WaitReq(handle, TRUE))]}
         ELSE {[ret |-> 0, reqs |-> done]})

CallResult(b, ret, reqs, aborted) ==
    [bo |-> b, ret |-> ret, reqs |-> reqs, aborted |-> aborted]

virgl_bo_invalidate(pa, p, b, rect) ==
    IF ~pa.p3d THEN {CallResult(b, 0, <<>>, FALSE)}
    ELSE UNION {
        LET b1 == pr.bo
        IN  IF ~HasAny(b1.use_flags, host_write_flags(b1))
            THEN {CallResult(b1, 0, pr.reqs, FALSE)}
            ELSE IF pa.resource_blob /\ "USE_MAPPABLE" \in b1.tiling
            THEN {CallResult(b1, 0, pr.reqs, FALSE)}
            ELSE UNION {
                IF xp.abort
                THEN {CallResult(b1, 0, pr.reqs, TRUE)}
                ELSE {CallResult(b1, t.ret, pr.reqs \o t.reqs, FALSE) :
                          t \in transfer_and_wait("TRANSFER_FROM_HOST",
                                                  b1.handle, xp, TRUE)}
                : xp \in xfer_params_of(p, b1, rect)}
        : pr \in arc_probe(b)}

virgl_bo_flush(pa, p, b, rect, map_flags) ==
    IF ~pa.p3d THEN {CallResult(b, 0, <<>>, FALSE)}
    ELSE IF "BO_MAP_WRITE" \notin map_flags
    THEN {CallResult(b, 0, <<>>, FALSE)}
    ELSE IF pa.resource_blob /\ "USE_MAPPABLE" \in b.tiling
    THEN {CallResult(b, 0, <<>>, FALSE)}
    ELSE UNION {
        IF xp.abort
        THEN {CallResult(b, 0, <<>>, TRUE)}
        ELSE {CallResult(b, t.ret, t.reqs, FALSE) :
                  t \in transfer_and_wait("TRANSFER_TO_HOST", b.handle, xp,
                                          HasAny(b.use_flags,
                                                 BO_USE_NON_GPU_HW))}
        : xp \in xfer_params_of(p, b, rect)}

(***************************************************************************)
(* virgl_bo_map.  The result is the set of outcomes: the descriptor after  *)
(* the call, the address returned ("MAP_FAILED" or "addr"), the length     *)
(* stored in the vma (0: not written) and the requests made.               *)
(***************************************************************************)
MapReq(name, handle, ok) == [req |-> name, handle |-> handle, ok |-> ok]

MapResult(b, addr, length, reqs) ==
    [bo |-> b, addr |-> addr, length |-> length, reqs |-> reqs]

virgl_3d_bo_map(b, map_flags) ==
    {MapResult(b, "MAP_FAILED", 0, <<MapReq("VIRTGPU_MAP", b.handle, FALSE)>>)}
    \cup {MapResult(b, addr, b.total_size,
                    <<MapReq("VIRTGPU_MAP", b.handle, TRUE)>>) :
              addr \in {"MAP_FAILED", "addr"}}

\* drv_dumb_bo_map: the dumb-buffer map request, then mmap of total_size.
drv_dumb_bo_map(b, map_flags) ==
    {MapResult(b, "MAP_FAILED", 0, <<MapReq("MODE_MAP_DUMB", b.handle, FALSE)>>)}
    \cup {MapResult(b, addr, b.total_size,
                    <<MapReq("MODE_MAP_DUMB", b.handle, TRUE)>>) :
              addr \in {"MAP_FAILED", "addr"}}

virgl_bo_map(pa, b, map_flags) ==
    IF pa.p3d THEN virgl_3d_bo_map(b, map_flags)
    ELSE drv_dumb_bo_map(b, map_flags)

(***************************************************************************)
(* virgl_resource_info.  strides, offsets and format_modifier are the      *)
(* caller's output storage; res_info is the answer of the host.            *)
(***************************************************************************)
ResInfoReq(handle, ok) ==
    [req |-> "RESOURCE_INFO_CROS", bo_handle |-> handle,
     type |-> "EXTENDED", ok |-> ok]

\* Answers of the host: a kernel without the extended request leaves the
\* strides zero; otherwise the layout of the host for two planes.
ResInfoAnswers ==
    {[strides |-> <<0, 0, 0, 0>>, offsets |-> <<0, 0, 0, 0>>,
      format_modifier |-> "0"],
     [strides |-> <<64, 64, 0, 0>>, offsets |-> <<0, 4096, 0, 0>>,
      format_modifier |-> "HOST_MODIFIER"]}

\* The planes the copy loop reaches: those before the first zero stride.
RECURSIVE info_planes_from(_, _)
info_planes_from(res_strides, plane) ==
    IF plane > DRV_MAX_PLANES THEN {}
    ELSE IF res_strides[plane] = 0 THEN {}
    ELSE {plane} \cup info_planes_from(res_strides, plane + 1)

InfoResult(b, ret, strides, offsets, format_modifier, reqs) ==
    [bo |-> b, ret |-> ret, strides |-> strides, offsets |-> offsets,
     format_modifier |-> format_modifier, reqs |-> reqs]

virgl_resource_info(pa, b, strides, offsets, format_modifier) ==
    IF ~pa.p3d
    THEN {InfoResult(b, 0, strides, offsets, format_modifier, <<>>)}
    ELSE {InfoResult(b, -1, strides, offsets, format_modifier,
                     <<ResInfoReq(b.handle, FALSE)>>)}
         \cup
         {LET copied == info_planes_from(res_info.strides, 1)
          IN  InfoResult(b, 0,
                         [plane \in 1..DRV_MAX_PLANES |->
                            IF plane \in copied THEN res_info.strides[plane]
                            ELSE strides[plane]],
                         [plane \in 1..DRV_MAX_PLANES |->
                            IF plane \in copied THEN res_info.offsets[plane]
                            ELSE offsets[plane]],
                         res_info.format_modifier,
                         <<ResInfoReq(b.handle, TRUE)>>) :
              res_info \in ResInfoAnswers}

(***************************************************************************)
(* The combination table virgl_init builds.  An entry is a (format, usage) *)
(* pair (the metadata is LINEAR_METADATA throughout).  The table state     *)
(* carries, next to the entries, the record of the calls of                *)
(* virgl_add_combination: the candidate, whether an entry was added and    *)
(* with which usage.                                                       *)
(***************************************************************************)
BO_USE_TEXTURE_MASK ==
    {"LINEAR", "RENDERSCRIPT", "TEXTURE", "FRONT_RENDERING"}
    \cup BO_USE_SW_MASK

BO_USE_RENDER_MASK == BO_USE_TEXTURE_MASK \cup {"RENDERING"}

Combination(format, use_flags) == [format |-> format, use_flags |-> use_flags]

NoCombos == [combos |-> <<>>, adds |-> <<>>]

drv_add_combination(table, format, use_flags) ==
    Append(table, Combination(format, use_flags))

drv_modify_combination(table, format, use_flags) ==
    [i \in 1..Len(table) |->
        IF table[i].format = format
        THEN Combination(format, table[i].use_flags \cup use_flags)
        ELSE table[i]]

drv_modify_linear_combinations(table) ==
    drv_modify_combination(
        drv_modify_combination(table, "XRGB8888", {"CURSOR", "SCANOUT"}),
        "ARGB8888", {"CURSOR", "SCANOUT"})

AddRecord(format, requested, added, stored) ==
    [format |-> format, requested |-> requested, added |-> added,
     stored |-> stored]

\* Mutant: an unsupported candidate is added with its rendering and texture
\* bits removed instead of being skipped.
virgl_add_combination_reduced(pa, p, st, drm_format, use_flags) ==
    LET stripped ==
            IF pa.p3d /\ "SCANOUT" \in use_flags
               /\ ~virgl_supports_combination_natively(p, drm_format,
                                                       {"SCANOUT"})
            THEN use_flags \ {"SCANOUT"} ELSE use_flags
        skip ==
            /\ pa.p3d
            /\ ~virgl_supports_combination_natively(p, drm_format, stripped)
            /\ ~virgl_supports_combination_through_emulation(p, drm_format,
                                                             stripped)
        stored == IF skip THEN stripped \ {"RENDERING", "TEXTURE"}
                  ELSE stripped
    IN  [combos |-> drv_add_combination(st.combos, drm_format, stored),
         adds |-> Append(st.adds,
                         AddRecord(drm_format, use_flags, TRUE, stored))]

\* Mutant: the candidate is added without the support test.
virgl_add_combination_unchecked(pa, p, st, drm_format, use_flags) ==
    LET stripped ==
            IF pa.p3d /\ "SCANOUT" \in use_flags
               /\ ~virgl_supports_combination_natively(p, drm_format,
                                                       {"SCANOUT"})
            THEN use_flags \ {"SCANOUT"} ELSE use_flags
    IN  [combos |-> drv_add_combination(st.combos, drm_format, stripped),
         adds |-> Append(st.adds,
                         AddRecord(drm_format, use_flags, TRUE, stripped))]

virgl_add_combination(pa, p, st, drm_format, use_flags) ==
    LET stripped ==
            IF pa.p3d /\ "SCANOUT" \in use_flags
               /\ ~virgl_supports_combination_natively(p, drm_format,
                                                       {"SCANOUT"})
            THEN use_flags \ {"SCANOUT"} ELSE use_flags
        skip ==
            /\ pa.p3d
            /\ ~virgl_supports_combination_natively(p, drm_format, stripped)
            /\ ~virgl_supports_combination_through_emulation(p, drm_format,
                                                             stripped)
    IN  IF skip
        THEN [st EXCEPT !.adds = Append(@, AddRecord(drm_format, use_flags,
                                                     FALSE, {}))]
        ELSE [combos |-> drv_add_combination(st.combos, drm_format, stripped),
              adds |-> Append(st.adds,
                              AddRecord(drm_format, use_flags, TRUE,
                                        stripped))]

\* A call virgl_init makes on the table: virgl_add_combination or
\* drv_modify_combination with its format and usage.
AddStep(drm_format, use_flags) ==
    [call |-> "virgl_add_combination", format |-> drm_format,
     use_flags |-> use_flags]

ModifyStep(drm_format, use_flags) ==
    [call |-> "drv_modify_combination", format |-> drm_format,
     use_flags |-> use_flags]

\* virgl_add_combinations: one virgl_add_combination per format, in order.
virgl_add_combinations(drm_formats, use_flags) ==
    [i \in 1..Len(drm_formats) |-> AddStep(drm_formats[i], use_flags)]

Modified(st, format, use_flags) ==
    [st EXCEPT !.combos = drv_modify_combination(@, format, use_flags)]

CameraVideoUse ==
    {"CAMERA_READ", "CAMERA_WRITE", "HW_VIDEO_DECODER", "HW_VIDEO_ENCODER"}

\* The calls of virgl_init on the table, in program order.
virgl_init_steps(pa, p) ==
    (IF pa.p3d
     THEN virgl_add_combinations(render_target_formats,
                                 BO_USE_RENDER_MASK \cup {"SCANOUT"})
          \o virgl_add_combinations(texture_source_formats,
                                    BO_USE_TEXTURE_MASK)
          \o <<AddStep("NV12", BO_USE_TEXTURE_MASK \cup CameraVideoUse
                               \cup {"SCANOUT"})>>
     ELSE <<AddStep("XRGB8888", BO_USE_RENDER_MASK \cup {"SCANOUT"}),
            AddStep("ARGB8888", BO_USE_RENDER_MASK \cup {"CURSOR"})>>
          \o virgl_add_combinations(render_target_formats,
                                    BO_USE_RENDER_MASK)
          \o virgl_add_combinations(dumb_texture_source_formats,
                                    BO_USE_TEXTURE_MASK)
          \o <<ModifyStep("NV12", CameraVideoUse)>>)
    \o <<AddStep("RGB888", BO_USE_SW_MASK),
         AddStep("BGR888", BO_USE_SW_MASK),
         AddStep("P010", {"SCANOUT", "TEXTURE", "CAMERA_READ",
                          "CAMERA_WRITE"} \cup BO_USE_SW_MASK),
         ModifyStep("R8", CameraVideoUse \cup {"SENSOR_DIRECT_DATA",
                                               "GPU_DATA_BUFFER"})>>
    \o (IF ~p.host_gbm_enabled
        THEN <<ModifyStep("ABGR8888", CameraVideoUse),
               ModifyStep("XBGR8888", CameraVideoUse),
               ModifyStep("NV21", CameraVideoUse),
               ModifyStep("R16", CameraVideoUse \ {"HW_VIDEO_ENCODER"}),
               ModifyStep("YVU420", CameraVideoUse),
               ModifyStep("YVU420_ANDROID", CameraVideoUse)>>
        ELSE <<>>)

\* The table state after the calls steps[i], steps[i + 1], ...
RECURSIVE virgl_init_run(_, _, _, _, _)
virgl_init_run(pa, p, st, steps, i) ==
    IF i > Len(steps) THEN st
    ELSE virgl_init_run(
             pa, p,
             IF steps[i].call = "virgl_add_combination"
             THEN virgl_add_combination(pa, p, st, steps[i].format,
                                        steps[i].use_flags)
             ELSE Modified(st, steps[i].format, steps[i].use_flags),
             steps, i + 1)

\* The table virgl_init builds once the capabilities are known.
virgl_init_combinations(pa, p) ==
    LET st == virgl_init_run(pa, p, NoCombos, virgl_init_steps(pa, p), 1)
    IN  [st EXCEPT !.combos = drv_modify_linear_combinations(@)]

\* drv_get_combination: an entry of the format whose usage covers use_flags.
drv_get_combination(table, format, use_flags) ==
    \E i \in 1..Len(table) :
        table[i].format = format /\ use_flags \subseteq table[i].use_flags

(***************************************************************************)
(* virgl_resolve_format_and_use_flags.  A result is the pair *out_format,  *)
(* *out_use_flags.                                                         *)
(***************************************************************************)
Resolved(format, use_flags) == [format |-> format, use_flags |-> use_flags]

\* Mutant: only the camera read bit selects NV12.
resolve_flexible_3d_camera_read_only(format, use_flags) ==
    IF format = "FLEX_IMPLEMENTATION_DEFINED"
    THEN IF HasAny(use_flags, {"CAMERA_READ"})
         THEN Resolved("NV12", use_flags)
         ELSE Resolved("XBGR8888",
                       (use_flags \ {"HW_VIDEO_ENCODER"}) \cup {"LINEAR"})
    ELSE IF format = "FLEX_YCbCr_420_888" THEN Resolved("NV12", use_flags)
    ELSE Resolved(format, use_flags)

\* The first switch of virgl_3d_resolve_format_and_use_flags: a flexible
\* format becomes an explicit one.
resolve_flexible_3d(format, use_flags) ==
    IF format = "FLEX_IMPLEMENTATION_DEFINED"
    THEN IF HasAny(use_flags, {"CAMERA_READ", "CAMERA_WRITE"})
         THEN Resolved("NV12", use_flags)
         ELSE Resolved("XBGR8888",
                       (use_flags \ {"HW_VIDEO_ENCODER"}) \cup {"LINEAR"})
    ELSE IF format = "FLEX_YCbCr_420_888" THEN Resolved("NV12", use_flags)
    ELSE Resolved(format, use_flags)

\* Mutant: scanout is stripped from the scanout capable formats whatever
\* the host supports.
resolve_explicit_3d_always_strip(p, out_format, out_use_flags) ==
    IF out_format \in {"NV12", "ABGR8888", "ARGB8888", "RGB565", "XBGR8888",
                       "XRGB8888"}
    THEN Resolved(out_format, out_use_flags \ {"SCANOUT"})
    ELSE IF out_format = "YVU420_ANDROID"
    THEN Resolved(out_format, (out_use_flags \ {"SCANOUT"}) \cup {"LINEAR"})
    ELSE Resolved(out_format, out_use_flags)

\* The second switch, on *out_format.
resolve_explicit_3d(p, out_format, out_use_flags) ==
    IF out_format \in {"NV12", "ABGR8888", "ARGB8888", "RGB565", "XBGR8888",
                       "XRGB8888"}
    THEN IF "SCANOUT" \in out_use_flags
            /\ ~virgl_supports_combination_natively(p, out_format,
                                                    {"SCANOUT"})
         THEN Resolved(out_format, out_use_flags \ {"SCANOUT"})
         ELSE Resolved(out_format, out_use_flags)
    ELSE IF out_format = "YVU420_ANDROID"
    THEN Resolved(out_format, (out_use_flags \ {"SCANOUT"}) \cup {"LINEAR"})
    ELSE Resolved(out_format, out_use_flags)

\* Mutant: the second switch looks at the input format, not at *out_format.
virgl_3d_resolve_on_input_format(p, format, use_flags) ==
    LET r == resolve_flexible_3d(format, use_flags)
        e == resolve_explicit_3d(p, format, r.use_flags)
    IN  Resolved(r.format, e.use_flags)

virgl_3d_resolve_format_and_use_flags(p, format, use_flags) ==
    LET r == resolve_flexible_3d(format, use_flags)
    IN  resolve_explicit_3d(p, r.format, r.use_flags)

virgl_2d_resolve_format_and_use_flags(format, use_flags) ==
    LET u0 == IF format # "XRGB8888" THEN use_flags \ {"SCANOUT"}
              ELSE use_flags
    IN  IF format = "FLEX_IMPLEMENTATION_DEFINED"
        THEN IF HasAny(use_flags, {"CAMERA_READ", "CAMERA_WRITE"})
             THEN Resolved("NV12", u0)
             ELSE Resolved("XBGR8888", u0 \ {"HW_VIDEO_ENCODER"})
        ELSE IF format \in {"FLEX_YCbCr_420_888", "YVU420_ANDROID"}
        THEN Resolved("YVU420_ANDROID", (u0 \ {"SCANOUT"}) \cup {"LINEAR"})
        ELSE Resolved(format, u0)

virgl_resolve_format_and_use_flags(pa, p, format, use_flags) ==
    IF pa.p3d
    THEN virgl_3d_resolve_format_and_use_flags(p, format, use_flags)
    ELSE virgl_2d_resolve_format_and_use_flags(format, use_flags)

(***************************************************************************)
(* The inputs of the buffer life cycle.                                    *)
(***************************************************************************)
ParamSpace ==
    [p3d : BOOLEAN, capset_fix : BOOLEAN, resource_blob : BOOLEAN,
     host_visible : BOOLEAN]

BuildSpace == [VIRTIO_GPU_NEXT : BOOLEAN]

CreateFormats == {"R8", "NV12", "YVU420_ANDROID", "XBGR8888"}

CreateUsages ==
    {{"TEXTURE", "SW_READ_OFTEN", "SW_WRITE_OFTEN"},
     {"TEXTURE", "CAMERA_WRITE", "HW_VIDEO_DECODER"},
     {"RENDERING", "TEXTURE", "SCANOUT"}}

\* Buffers are squares of side 1..MaxDim.
BoSizes == {<<d, d>> : d \in 1..MaxDim}

\* The hosts of the buffer life cycle.
LifeCycleHosts == HostCaps

\* Modifier lists of length 0..MaxMods.
ModifierLists ==
    UNION {[1..n -> {"DRM_FORMAT_MOD_LINEAR", "DRM_FORMAT_MOD_OTHER"}] :
               n \in 0..MaxMods}

\* Lock rectangles: the whole buffer, or its lower right part from (d, d).
LockRects(b) ==
    {Rect(d, d, b.width - d, b.height - d) :
         d \in 0..((IF b.width < b.height THEN b.width ELSE b.height) - 1)}

MapFlags == {{"BO_MAP_READ"}, {"BO_MAP_READ", "BO_MAP_WRITE"}}

NoOp ==
    [name |-> "none", ret |-> 0, path |-> "none", reqs |-> <<>>,
     aborted |-> FALSE, pre |-> Descriptor(NoBo), arg |-> <<>>]

NoCall == [fn |-> "none"]

(***************************************************************************)
(* Initial state: the driver is not initialised, no buffer exists.         *)
(***************************************************************************)
Init ==
    /\ params \in ParamSpace
    /\ build \in BuildSpace
    /\ host \in LifeCycleHosts
    /\ drv_state = "closed"
    /\ priv = ZeroPriv
    /\ combos = <<>>
    /\ bo = NoBo
    /\ op = NoOp
    /\ tpc = <<>>
    /\ tid = <<>>
    /\ call = NoCall

(***************************************************************************)
(* virgl_init: calloc, capability negotiation.                             *)
(***************************************************************************)
virgl_init ==
    /\ drv_state = "closed"
    /\ \/ /\ drv_state' = "init_failed"
          /\ op' = [NoOp EXCEPT !.name = "init", !.ret = -ENOMEM]
          /\ UNCHANGED <<priv, combos>>
       \/ \E ok1, ok2 \in BOOLEAN :
            LET r == virgl_init_params_and_caps(params, ZeroPriv, host,
                                                ok1, ok2)
                t == virgl_init_combinations(params, r.priv)
            IN  /\ drv_state' = "ready"
                /\ priv' = r.priv
                /\ combos' = t.combos
                /\ op' = [NoOp EXCEPT !.name = "init", !.ret = 0,
                                      !.reqs = r.reqs, !.arg = t.adds]
    /\ UNCHANGED <<params, build, host, bo, tpc, tid, call>>

(***************************************************************************)
(* The caller allocates a descriptor (drv_bo_new) before it calls create.  *)
(***************************************************************************)
\* What drv_bo_create's callers establish before the backend is called:
\* (format, use_flags) is an output of the resolver and an entry of the
\* table covers it.
resolved_and_covered(pa, p, table, format, use_flags) ==
    /\ virgl_resolve_format_and_use_flags(pa, p, format, use_flags)
           = Resolved(format, use_flags)
    /\ drv_get_combination(table, format, use_flags)

bo_new ==
    /\ drv_state = "ready"
    /\ bo.state = "none"
    /\ \E sz \in BoSizes, f \in CreateFormats, u \in CreateUsages \cup {{}} :
            bo' = [drv_bo_new(sz[1], sz[2], f, u) EXCEPT
                     !.covered = resolved_and_covered(params, priv, combos,
                                                      f, u)]
    /\ UNCHANGED <<params, build, host, combos, drv_state, priv, op, tpc, tid, call>>

\* A call that returned an error leaves a descriptor the caller frees.
AfterCreate(o) ==
    IF o.ret < 0 THEN [o.bo EXCEPT !.state = "failed"] ELSE o.bo

bo_create ==
    /\ drv_state = "ready"
    /\ bo.state = "new"
    /\ \E o \in virgl_bo_create(params, build, priv, bo, bo.width, bo.height,
                                bo.format, bo.use_flags) :
         /\ bo' = AfterCreate(o)
         /\ priv' = o.priv
         /\ op' = [name |-> "create", ret |-> o.ret, path |-> o.path,
                   reqs |-> o.reqs, aborted |-> o.bo.state = "aborted",
                   pre |-> Descriptor(bo), arg |-> <<>>]
    /\ UNCHANGED <<params, build, host, combos, drv_state, tpc, tid, call>>

bo_create_with_modifiers ==
    /\ drv_state = "ready"
    /\ bo.state = "new"
    /\ bo.use_flags = {}
    /\ \E m \in ModifierLists :
         \E o \in virgl_bo_create_with_modifiers(params, build, priv, bo,
                                                 bo.width, bo.height,
                                                 bo.format, m) :
            /\ bo' = AfterCreate(o)
            /\ priv' = o.priv
            /\ op' = [name |-> "create_with_modifiers", ret |-> o.ret,
                      path |-> o.path, reqs |-> o.reqs,
                      aborted |-> o.bo.state = "aborted",
                      pre |-> Descriptor(bo), arg |-> m]
    /\ UNCHANGED <<params, build, host, combos, drv_state, tpc, tid, call>>

bo_invalidate ==
    /\ drv_state = "ready"
    /\ bo.state = "created"
    /\ \E rect \in LockRects(bo) :
         \E o \in virgl_bo_invalidate(params, priv, bo, rect) :
            /\ bo' = IF o.aborted THEN [o.bo EXCEPT !.state = "aborted"]
                     ELSE o.bo
            /\ op' = [name |-> "invalidate", ret |-> o.ret, path |-> "none",
                      reqs |-> o.reqs, aborted |-> o.aborted,
                      pre |-> Descriptor(bo), arg |-> rect]
    /\ UNCHANGED <<params, build, host, combos, drv_state, priv, tpc, tid, call>>

bo_flush ==
    /\ drv_state = "ready"
    /\ bo.state = "created"
    /\ \E rect \in LockRects(bo), mf \in MapFlags :
         \E o \in virgl_bo_flush(params, priv, bo, rect, mf) :
            /\ bo' = IF o.aborted THEN [o.bo EXCEPT !.state = "aborted"]
                     ELSE o.bo
            /\ op' = [name |-> "flush", ret |-> o.ret, path |-> "none",
                      reqs |-> o.reqs, aborted |-> o.aborted,
                      pre |-> Descriptor(bo), arg |-> <<rect, mf>>]
    /\ UNCHANGED <<params, build, host, combos, drv_state, priv, tpc, tid, call>>

bo_map ==
    /\ drv_state = "ready"
    /\ bo.state = "created"
    /\ \E mf \in MapFlags :
         \E o \in virgl_bo_map(params, bo, mf) :
            /\ bo' = o.bo
            /\ op' = [name |-> "map", ret |-> 0, path |-> "none",
                      reqs |-> o.reqs, aborted |-> FALSE,
                      pre |-> Descriptor(bo),
                      arg |-> [addr |-> o.addr, length |-> o.length]]
    /\ UNCHANGED <<params, build, host, combos, drv_state, priv, tpc, tid, call>>

\* The caller hands in the strides and offsets of the descriptor.
bo_resource_info ==
    /\ drv_state = "ready"
    /\ bo.state = "created"
    /\ \E o \in virgl_resource_info(params, bo, bo.strides, bo.offsets, "0") :
         /\ bo' = o.bo
         /\ op' = [name |-> "resource_info", ret |-> o.ret, path |-> "none",
                   reqs |-> o.reqs, aborted |-> FALSE,
                   pre |-> Descriptor(bo),
                   arg |-> [strides |-> o.strides, offsets |-> o.offsets,
                            format_modifier |-> o.format_modifier]]
    /\ UNCHANGED <<params, build, host, combos, drv_state, priv, tpc, tid, call>>

Next ==
    \/ virgl_init
    \/ bo_new
    \/ bo_create
    \/ bo_create_with_modifiers
    \/ bo_map
    \/ bo_invalidate
    \/ bo_flush
    \/ bo_resource_info

Spec == Init /\ [][Next]_vars

(***************************************************************************)
(* Concurrent callers of virgl_bo_create_blob on one device context: each  *)
(* caller takes its identifier with one atomic_fetch_add and then issues   *)
(* its request; the steps of different callers interleave.                 *)
(***************************************************************************)
Threads == 1..MaxThreads

BlobParams ==
    [p3d |-> TRUE, capset_fix |-> TRUE, resource_blob |-> TRUE,
     host_visible |-> TRUE]

InitBlob ==
    /\ params = BlobParams
    /\ build = [VIRTIO_GPU_NEXT |-> TRUE]
    /\ host = HostGbm
    /\ drv_state = "ready"
    /\ priv = virgl_init_params_and_caps(BlobParams, ZeroPriv, HostGbm,
                                         TRUE, TRUE).priv
    /\ combos = <<>>
    /\ bo = NoBo
    /\ op = NoOp
    /\ tpc = [t \in Threads |-> "start"]
    /\ tid = [t \in Threads |-> <<>>]
    /\ call = NoCall

blob_fetch_add(t) ==
    /\ tpc[t] = "start"
    /\ Len(tid[t]) < MaxBlobsPerThread
    /\ LET fa == atomic_fetch_add(priv.next_blob_id)
       IN  /\ priv' = [priv EXCEPT !.next_blob_id = fa.new]
           /\ tid' = [tid EXCEPT ![t] = Append(@, fa.old)]
    /\ tpc' = [tpc EXCEPT ![t] = "request"]
    /\ UNCHANGED <<params, build, host, combos, drv_state, bo, op, call>>

blob_request(t) ==
    /\ tpc[t] = "request"
    /\ \E ok \in BOOLEAN :
         tpc' = [tpc EXCEPT ![t] = IF ok THEN "start" ELSE "failed"]
    /\ UNCHANGED <<params, build, host, combos, drv_state, priv, bo, op, tid, call>>

\* The caller of a failed creation may create again.
blob_retry(t) ==
    /\ tpc[t] = "failed"
    /\ tpc' = [tpc EXCEPT ![t] = "start"]
    /\ UNCHANGED <<params, build, host, combos, drv_state, priv, bo, op, tid, call>>

NextBlob ==
    \E t \in Threads : blob_fetch_add(t) \/ blob_request(t) \/ blob_retry(t)

SpecBlob == InitBlob /\ [][NextBlob]_vars

(***************************************************************************)
(* The pure functions applied to inputs drawn from bounded sets.  The      *)
(* device contexts are those virgl_init can leave.                         *)
(***************************************************************************)
PrivStates ==
    {virgl_init_params_and_caps(pa, ZeroPriv, h, ok1, ok2).priv :
         pa \in ParamSpace, h \in HostCaps, ok1 \in BOOLEAN, ok2 \in BOOLEAN}

BlobUsageBits ==
    {"TEXTURE", "LINEAR", "GPU_DATA_BUFFER", "CAMERA_READ", "SCANOUT",
     "SW_READ_OFTEN", "SW_WRITE_OFTEN", "SW_READ_RARELY"}

YuvFormats == {"NV12", "NV21", "YVU420", "YVU420_ANDROID"}

GeomFormats == YuvFormats \cup {"XBGR8888", "R8"}

GeomUsages == {{"TEXTURE"}, {"TEXTURE", "RENDERING"}}

\* Every rectangle inside a w x h image.
AllRects(w, h) ==
    {Rect(x, y, rw, rh) : x \in 0..(w - 1), y \in 0..(h - 1),
                          rw \in 1..w, rh \in 1..h}

RectsIn(w, h) ==
    {r \in AllRects(w, h) : r.x + r.width <= w /\ r.y + r.height <= h}

InitPure ==
    /\ params = BlobParams
    /\ build = [VIRTIO_GPU_NEXT |-> TRUE]
    /\ host = HostGbm
    /\ drv_state = "ready"
    /\ priv = ZeroPriv
    /\ combos = <<>>
    /\ bo = NoBo
    /\ op = NoOp
    /\ tpc = <<>>
    /\ tid = <<>>
    /\ call = NoCall

call_should_use_blob ==
    /\ call = NoCall
    /\ \E p \in PrivStates, next \in BOOLEAN, f \in DrmFormats,
          u \in SUBSET BlobUsageBits :
         call' = [fn |-> "should_use_blob", priv |-> p, next |-> next,
                  format |-> f, use_flags |-> u,
                  result |-> should_use_blob(p, next, f, u)]
    /\ UNCHANGED <<params, build, host, combos, drv_state, priv, bo, op, tpc, tid>>

call_get_emulated_metadata ==
    /\ call = NoCall
    /\ \E f \in GeomFormats, w \in 1..MaxMetaW, h \in 1..MaxGeomH,
          u \in UninitMetadata :
         call' = [fn |-> "virgl_get_emulated_metadata", format |-> f,
                  width |-> w, height |-> h,
                  result |-> virgl_get_emulated_metadata(
                                 drv_bo_new(w, h, f, {}), u)]
    /\ UNCHANGED <<params, build, host, combos, drv_state, priv, bo, op, tpc, tid>>

call_xfer_params ==
    /\ call = NoCall
    /\ \E p \in PrivStates, f \in GeomFormats, u \in GeomUsages,
          w \in 1..MaxGeomW, h \in 1..MaxGeomH :
         \E rect \in RectsIn(w, h) :
            \E xp \in xfer_params_of(p, drv_bo_new(w, h, f, u), rect) :
               call' = [fn |-> "xfer_params", priv |-> p, format |-> f,
                        use_flags |-> u, width |-> w, height |-> h,
                        rect |-> rect, result |-> xp]
    /\ UNCHANGED <<params, build, host, combos, drv_state, priv, bo, op, tpc, tid>>

\* The usage bits given to compute_virgl_bind_flags: every bit a rule
\* names, and one no rule names.
BindUsageBits ==
    {"TEXTURE", "RENDERING", "SCANOUT", "CURSOR", "LINEAR",
     "SENSOR_DIRECT_DATA", "GPU_DATA_BUFFER", "FRONT_RENDERING", "PROTECTED",
     "SW_READ_OFTEN", "SW_READ_RARELY", "SW_WRITE_OFTEN", "SW_WRITE_RARELY",
     "CAMERA_WRITE", "CAMERA_READ", "HW_VIDEO_DECODER", "HW_VIDEO_ENCODER",
     "RENDERSCRIPT"}

call_compute_virgl_bind_flags ==
    /\ call = NoCall
    /\ \E u \in SUBSET BindUsageBits :
         call' = [fn |-> "compute_virgl_bind_flags", use_flags |-> u,
                  result |-> compute_virgl_bind_flags(u),
                  residue |-> compute_virgl_bind_state(u).flag]
    /\ UNCHANGED <<params, build, host, combos, drv_state, priv, bo, op, tpc, tid>>

\* The usage bits the resolvers read or write, and two they leave alone.
ResolveUsageBits ==
    {"SCANOUT", "CAMERA_READ", "CAMERA_WRITE", "HW_VIDEO_ENCODER", "LINEAR",
     "TEXTURE", "RENDERING"}

\* The device contexts virgl_init can leave, with the parameters they were
\* negotiated under.
ResolveContexts ==
    {[params |-> pa,
      priv |-> virgl_init_params_and_caps(pa, ZeroPriv, h, ok1, ok2).priv] :
         pa \in ParamSpace, h \in HostCaps, ok1 \in BOOLEAN, ok2 \in BOOLEAN}

call_resolve_format_and_use_flags ==
    /\ call = NoCall
    /\ \E c \in ResolveContexts, f \in DrmFormats,
          u \in SUBSET ResolveUsageBits :
         call' = [fn |-> "virgl_resolve_format_and_use_flags",
                  params |-> c.params, priv |-> c.priv, format |-> f,
                  use_flags |-> u,
                  result |-> virgl_resolve_format_and_use_flags(
                                 c.params, c.priv, f, u)]
    /\ UNCHANGED <<params, build, host, combos, drv_state, priv, bo, op, tpc, tid>>

NextPure ==
    \/ call_should_use_blob
    \/ call_get_emulated_metadata
    \/ call_xfer_params
    \/ call_compute_virgl_bind_flags
    \/ call_resolve_format_and_use_flags

SpecPure == InitPure /\ [][NextPure]_vars

(***************************************************************************)
(* Properties.                                                             *)
(***************************************************************************)
Creates == {"create", "create_with_modifiers"}

FailedReqs(reqs) == {i \in 1..Len(reqs) : ~reqs[i].ok}

CreateReqNames == {"RESOURCE_CREATE_BLOB", "RESOURCE_CREATE", "MODE_CREATE_DUMB"}

CreateReqs(reqs) == {i \in 1..Len(reqs) : reqs[i].req \in CreateReqNames}

\* ceil(n / 2), written without the rounding macro.
CeilHalf(n) == (n \div 2) + (n % 2)

\* The usage bits the native-support predicate reads, and two it does not.
NativeProbeUsages ==
    SUBSET {"RENDERING", "TEXTURE", "SCANOUT", "LINEAR", "CAMERA_WRITE"}

\* C1: in the state virgl_init leaves, a failed version 2 capability query
\* is followed by a version 1 query; when every query failed the capability
\* set is still at version 0, the native-support predicate answers
\* "supported" for every format and usage, and init has returned success.
C1_CapsFallback ==
    (op.name = "init" /\ drv_state = "ready") =>
        /\ \A i \in 1..Len(op.reqs) :
              (op.reqs[i].cap_set_id = 2 /\ ~op.reqs[i].ok) =>
                  /\ i < Len(op.reqs)
                  /\ op.reqs[i + 1].req = "GET_CAPS"
                  /\ op.reqs[i + 1].cap_set_id = 1
        /\ (op.reqs # <<>> /\ FailedReqs(op.reqs) = 1..Len(op.reqs)) =>
              /\ Len(op.reqs) = 2
              /\ priv.caps.max_version = 0
              /\ \A f \in DrmFormats, u \in NativeProbeUsages :
                    virgl_supports_combination_natively(priv, f, u)
              /\ op.ret = 0

\* Witness of C1: the version 2 query and the version 1 query both failed.
C1_Witness ==
    /\ op.name = "init"
    /\ Len(op.reqs) = 2
    /\ op.reqs[1].cap_set_id = 2 /\ ~op.reqs[1].ok
    /\ op.reqs[2].cap_set_id = 1 /\ ~op.reqs[2].ok
    /\ host.max_version > 0

\* The path the dispatch order of C2 selects for the call recorded in op.
C2_Selected ==
    LET u == IF op.name = "create" THEN op.pre.use_flags ELSE {}
    IN  IF params.resource_blob /\ params.host_visible
           /\ should_use_blob(priv, build.VIRTIO_GPU_NEXT, op.pre.format, u)
        THEN "blob"
        ELSE IF params.p3d THEN "3d"
        ELSE "dumb"

C2_OnePath ==
    (op.name \in Creates /\ op.path # "none") =>
        /\ op.path = C2_Selected
        /\ Cardinality(CreateReqs(op.reqs)) <= 1
        /\ \A i \in 1..Len(op.reqs) :
              op.reqs[i].req =
                  (CASE op.path = "blob" -> "RESOURCE_CREATE_BLOB"
                     [] op.path = "3d" -> "RESOURCE_CREATE"
                     [] OTHER -> "MODE_CREATE_DUMB")
        /\ (bo.state = "created" => bo.kind = op.path)

C2_KindStep ==
    /\ (bo.kind # "unallocated" => bo'.kind = bo.kind)
    /\ (bo.kind = "unallocated" /\ bo'.kind # "unallocated") =>
          (op'.name \in Creates /\ bo'.kind = op'.path)

\* C2: a create call runs exactly one creation path, the blob path when
\* blob resources and host-visible memory are supported and the blob
\* predicate holds, else the 3D path iff 3D is negotiated, else the dumb
\* path; the backing kind of a buffer is set once, by create, to that path,
\* and never changes afterwards.
C2_PathSelection == [](C2_OnePath) /\ [][C2_KindStep]_vars

\* Witness of C2: a blob-backed buffer after a later operation on it.
C2_Witness ==
    bo.kind = "blob" /\ op.name = "invalidate" /\ params.p3d

\* The blob predicate as C3 states it.
C3_Stated(gbm, f, u) ==
    /\ gbm
    /\ HasAny(u, {"SW_READ_OFTEN", "SW_WRITE_OFTEN", "LINEAR",
                  "GPU_DATA_BUFFER"} \cup BO_USE_NON_GPU_HW)
    /\ \/ f = "R8"
       \/ /\ f \in {"NV12", "NV21", "YVU420", "YVU420_ANDROID"}
          /\ ~HasAny(u, BO_USE_SW_MASK)

\* C3 as stated: the blob predicate holds iff the host buffer manager is
\* active, the usage has one of the listed bits, and the format is R8 or
\* one of NV12, NV21, YVU420, YVU420_ANDROID without a CPU-mapping bit.
C3_Original ==
    call.fn = "should_use_blob" =>
        (call.result <=>
             C3_Stated(call.priv.host_gbm_enabled, call.format,
                       call.use_flags))

\* C3 amended: in a build that defines VIRTIO_GPU_NEXT the predicate holds
\* iff the host buffer manager is active, the usage has one of the listed
\* bits, and the format is R8, or NV12 or YVU420_ANDROID without a
\* CPU-mapping bit; in a build that does not define it, it never holds.
C3_BlobPredicate ==
    call.fn = "should_use_blob" =>
        (call.result <=>
             /\ call.next
             /\ call.priv.host_gbm_enabled
             /\ HasAny(call.use_flags,
                       {"SW_READ_OFTEN", "SW_WRITE_OFTEN", "LINEAR",
                        "GPU_DATA_BUFFER"} \cup BO_USE_NON_GPU_HW)
             /\ \/ call.format = "R8"
                \/ /\ call.format \in {"NV12", "YVU420_ANDROID"}
                   /\ ~HasAny(call.use_flags, BO_USE_SW_MASK))

\* Witness of C3: the predicate holds for a YUV format.
C3_Witness ==
    /\ call.fn = "should_use_blob"
    /\ call.result
    /\ call.format = "YVU420_ANDROID"
    /\ "CAMERA_READ" \in call.use_flags

\* C4: when the host request of the selected creation path fails, create
\* returns a negative status and has issued no other host request.
C4_NoRetry ==
    (op.name \in Creates /\ FailedReqs(op.reqs) # {}) =>
        /\ op.ret < 0
        /\ Len(op.reqs) = 1
        /\ bo.state = "failed"
        /\ bo.kind = "unallocated"

\* Witness of C4: the request of the blob path failed.
C4_Witness ==
    /\ op.name = "create"
    /\ op.path = "blob"
    /\ FailedReqs(op.reqs) # {}

FailedCall ==
    /\ op.name \in Creates \cup {"invalidate", "flush"}
    /\ (op.name \in Creates => op.path \in {"blob", "3d"})
    /\ ~op.aborted
    /\ op.ret < 0
    /\ FailedReqs(op.reqs) # {}

\* C5 as stated: after a call of create, invalidate or flush in which a
\* host request failed, the buffer descriptor is what it was before.
C5_Original == FailedCall => Descriptor(bo) = op.pre

\* C5 amended: a failed flush leaves the descriptor unchanged; a failed
\* invalidate leaves it unchanged but for the usage flags, which may have
\* gained the screen-capture-probed bit and the rendering bit; a failed
\* create leaves width, height, format, usage flags and host handle
\* unchanged (the 3D path also the tiling flags) and may have written the
\* per-plane layout, the total size and, on the blob path, the blob flags.
C5_FailedCallFrame ==
    FailedCall =>
        LET d == Descriptor(bo)
        IN  CASE op.name = "flush" -> d = op.pre
              [] op.name = "invalidate" ->
                    /\ [d EXCEPT !.use_flags = op.pre.use_flags] = op.pre
                    /\ op.pre.use_flags \subseteq d.use_flags
                    /\ d.use_flags \ op.pre.use_flags
                           \subseteq {"ARC_SCREEN_CAP_PROBED", "RENDERING"}
                    /\ (d.use_flags # op.pre.use_flags =>
                            ~HasAny(op.pre.use_flags,
                                    {"ARC_SCREEN_CAP_PROBED", "RENDERING"}))
              [] OTHER ->
                    /\ d.width = op.pre.width
                    /\ d.height = op.pre.height
                    /\ d.format = op.pre.format
                    /\ d.use_flags = op.pre.use_flags
                    /\ d.handle = op.pre.handle
                    /\ (op.path = "3d" => d.tiling = op.pre.tiling)

\* Witness of C5: a failed invalidate that has changed the usage flags.
C5_Witness ==
    /\ FailedCall
    /\ op.name = "invalidate"
    /\ bo.use_flags # op.pre.use_flags

\* The identifiers the callers hold: (thread, index) -> identifier.
BlobIdSlots == {<<t, i>> : t \in Threads, i \in 1..MaxBlobsPerThread}

C6_Unique ==
    \A a \in BlobIdSlots, b \in BlobIdSlots :
        (/\ a # b
         /\ a[2] <= Len(tid[a[1]])
         /\ b[2] <= Len(tid[b[1]])) => tid[a[1]][a[2]] # tid[b[1]][b[2]]

C6_CounterStep ==
    /\ priv'.next_blob_id >= priv.next_blob_id
    /\ \A t \in Threads :
          tid'[t] # tid[t] =>
              /\ tid'[t] = Append(tid[t], priv.next_blob_id)
              /\ priv'.next_blob_id = priv.next_blob_id + 1

\* C6: under every interleaving of concurrent blob creations no two
\* creations hold the same identifier, each identifier is the counter value
\* read by one fetch-and-increment, and the counter never decreases.
C6_BlobIds == [](C6_Unique) /\ [][C6_CounterStep]_vars

\* Witness of C6: every caller holds its identifiers, taken in interleaved
\* order (the first caller holds the first and the last identifier).
C6_Witness ==
    /\ \A t \in Threads : Len(tid[t]) = MaxBlobsPerThread
    /\ tid[1][1] = 0
    /\ tid[1][MaxBlobsPerThread] = MaxThreads * MaxBlobsPerThread - 1

HasLinear(m) == \E i \in 1..Len(m) : m[i] = "DRM_FORMAT_MOD_LINEAR"

\* C7: create-with-modifiers returns -EINVAL with no host request and the
\* descriptor untouched when no modifier of the list is the linear one (an
\* empty list included); with a linear modifier in the list it runs create
\* once: one creation path, one creation request.
C7_Modifiers ==
    op.name = "create_with_modifiers" =>
        IF HasLinear(op.arg)
        THEN /\ op.path \in {"blob", "3d", "dumb"}
             /\ Cardinality(CreateReqs(op.reqs)) = 1
             /\ Len(op.reqs) = 1
        ELSE /\ op.ret = -EINVAL
             /\ op.reqs = <<>>
             /\ op.path = "none"
             /\ Descriptor(bo) = op.pre

\* Witness of C7: a non-empty list without the linear modifier is rejected.
C7_Witness ==
    /\ op.name = "create_with_modifiers"
    /\ Len(op.arg) = MaxMods
    /\ ~HasLinear(op.arg)
    /\ op.ret = -EINVAL

\* C8: for every logical W and H the emulated geometry of a bi-planar
\* format is W wide and H + ceil(H/2) high, with the luma plane at stride W,
\* offset 0, size W*H, the chroma plane at stride W, offset W*H, size
\* W*ceil(H/2), and a total size of W*(H + ceil(H/2)).
C8_Biplanar ==
    (call.fn = "virgl_get_emulated_metadata"
     /\ call.format \in {"NV12", "NV21"}) =>
        LET W == call.width
            H == call.height
            m == call.result
        IN  /\ m.num_planes = 2
            /\ m.width = W
            /\ m.height = H + CeilHalf(H)
            /\ m.strides = <<W, W>>
            /\ m.offsets = <<0, W * H>>
            /\ m.sizes = <<W * H, W * CeilHalf(H)>>
            /\ m.total_size = W * (H + CeilHalf(H))

\* Witness of C8: an odd height.
C8_Witness ==
    /\ call.fn = "virgl_get_emulated_metadata"
    /\ call.format = "NV21"
    /\ call.height = 5
    /\ call.result.height = 8

\* W rounded up to a multiple of 32, written without the alignment macro.
RoundUp32(W) == CHOOSE P \in W..(W + 31) : P % 32 = 0

\* C9: for every logical W and H the emulated geometry of a tri-planar
\* format is P = W rounded up to a multiple of 32 wide and H + 2*ceil(H/2)
\* high; luma, Cb and Cr are stacked in this order in disjoint contiguous
\* byte ranges (offsets 0, P*H, P*H + P*ceil(H/2); sizes P*H, P*ceil(H/2),
\* P*ceil(H/2)) and the plane sizes sum to the total size.
C9_Triplanar ==
    (call.fn = "virgl_get_emulated_metadata"
     /\ call.format \in {"YVU420", "YVU420_ANDROID"}) =>
        LET P == RoundUp32(call.width)
            H == call.height
            m == call.result
        IN  /\ m.num_planes = 3
            /\ m.width = P
            /\ m.height = H + 2 * CeilHalf(H)
            /\ m.strides = <<P, P, P>>
            /\ m.offsets = <<0, P * H, P * H + P * CeilHalf(H)>>
            /\ m.sizes = <<P * H, P * CeilHalf(H), P * CeilHalf(H)>>
            /\ m.offsets[1] + m.sizes[1] = m.offsets[2]
            /\ m.offsets[2] + m.sizes[2] = m.offsets[3]
            /\ m.offsets[3] + m.sizes[3] = m.total_size
            /\ m.sizes[1] + m.sizes[2] + m.sizes[3] = m.total_size

\* Witness of C9: a width past the first alignment boundary, an odd height.
C9_Witness ==
    /\ call.fn = "virgl_get_emulated_metadata"
    /\ call.format = "YVU420"
    /\ call.width = 33
    /\ call.height = 3
    /\ call.result.width = 64
    /\ call.result.total_size = 448

\* The physical size of the emulated geometry, as C8 and C9 give it.
PhysicalBox(f, W, H) ==
    IF f \in {"NV12", "NV21"} THEN Rect(0, 0, W, H + CeilHalf(H))
    ELSE Rect(0, 0, RoundUp32(W), H + 2 * CeilHalf(H))

\* C10: a lock rectangle equal to the whole logical buffer yields exactly
\* one transfer rectangle: the rectangle itself for a natively handled
\* buffer, (0, 0, physical width, physical height) of the emulated geometry
\* for an emulated buffer.
C10_FullRect ==
    (/\ call.fn = "xfer_params"
     /\ call.rect = Rect(0, 0, call.width, call.height)) =>
        IF virgl_supports_combination_natively(call.priv, call.format,
                                               call.use_flags)
        THEN /\ ~call.result.abort
             /\ call.result.xfers_needed = 1
             /\ call.result.xfer_boxes = <<call.rect>>
        ELSE virgl_supports_combination_through_emulation(
                 call.priv, call.format, call.use_flags) =>
                 /\ ~call.result.abort
                 /\ call.result.xfers_needed = 1
                 /\ call.result.xfer_boxes =
                        <<PhysicalBox(call.format, call.width, call.height)>>

\* Witness of C10: the whole of an emulated bi-planar buffer that is not
\* square.
C10_Witness ==
    /\ call.fn = "xfer_params"
    /\ call.format = "NV12"
    /\ call.width = 6 /\ call.height = 5
    /\ call.rect = Rect(0, 0, 6, 5)
    /\ ~virgl_supports_combination_natively(call.priv, call.format,
                                            call.use_flags)
    /\ call.result.xfer_boxes = <<Rect(0, 0, 6, 8)>>

\* The per-plane rectangles C11 states for a partial lock rectangle r on an
\* emulated buffer of format f and logical height H.
C11_Stated(f, H, r) ==
    IF f \in {"NV12", "NV21"}
    THEN <<Rect(r.x, r.y, r.width, r.height),
           Rect(r.x, r.y + H, r.width, CeilHalf(r.height))>>
    ELSE <<Rect(r.x, r.y, r.width, r.height),
           Rect(r.x, r.y + H, CeilHalf(r.width), CeilHalf(r.height)),
           Rect(r.x, r.y + H + CeilHalf(H), CeilHalf(r.width),
                CeilHalf(r.height))>>

\* C11: a partial lock rectangle (x, y, w, h) on an emulated buffer of
\* logical height H yields one transfer per plane: plane 0 the rectangle
\* itself, for a bi-planar format plane 1 = (x, y + H, w, ceil(h/2)), for a
\* tri-planar format plane 1 = (x, y + H, ceil(w/2), ceil(h/2)) and plane 2
\* = (x, y + H + ceil(H/2), ceil(w/2), ceil(h/2)); a natively handled
\* buffer yields exactly one transfer, the caller's rectangle.
C11_PartialRect ==
    call.fn = "xfer_params" =>
        IF virgl_supports_combination_natively(call.priv, call.format,
                                               call.use_flags)
        THEN /\ ~call.result.abort
             /\ call.result.xfers_needed = 1
             /\ call.result.xfer_boxes = <<call.rect>>
        ELSE (/\ virgl_supports_combination_through_emulation(
                     call.priv, call.format, call.use_flags)
              /\ call.rect # Rect(0, 0, call.width, call.height)) =>
                 /\ ~call.result.abort
                 /\ call.result.xfers_needed
                        = drv_num_planes_from_format(call.format)
                 /\ call.result.xfers_needed = Len(call.result.xfer_boxes)
                 /\ call.result.xfer_boxes
                        = C11_Stated(call.format, call.height, call.rect)

\* Witness of C11: an odd-sized partial rectangle on an emulated tri-planar
\* buffer of odd height.
C11_Witness ==
    /\ call.fn = "xfer_params"
    /\ call.format = "YVU420"
    /\ call.width = 6 /\ call.height = 5
    /\ call.rect = Rect(1, 2, 3, 3)
    /\ ~virgl_supports_combination_natively(call.priv, call.format,
                                            call.use_flags)
    /\ call.result.xfer_boxes
           = <<Rect(1, 2, 3, 3), Rect(1, 7, 2, 2), Rect(1, 10, 2, 2)>>

ReadBinds == {"MINIGBM_SW_READ_OFTEN", "MINIGBM_SW_READ_RARELY"}

WriteBinds == {"MINIGBM_SW_WRITE_OFTEN", "MINIGBM_SW_WRITE_RARELY"}

\* C12 as stated: with the protected bit the bind flags hold the protected
\* bind bit and no read/write-intent bit; otherwise they hold exactly one
\* read-intent bit (OFTEN preferred) and exactly one write-intent bit (OFTEN
\* preferred), for every usage mask.
C12_Original ==
    call.fn = "compute_virgl_bind_flags" =>
        IF "PROTECTED" \in call.use_flags
        THEN /\ "MINIGBM_PROTECTED" \in call.result
             /\ call.result \cap (ReadBinds \cup WriteBinds) = {}
        ELSE /\ Cardinality(call.result \cap ReadBinds) = 1
             /\ Cardinality(call.result \cap WriteBinds) = 1
             /\ ("SW_READ_OFTEN" \in call.use_flags =>
                    "MINIGBM_SW_READ_OFTEN" \in call.result)
             /\ ("SW_WRITE_OFTEN" \in call.use_flags =>
                    "MINIGBM_SW_WRITE_OFTEN" \in call.result)

\* The bind bit of a pair chosen for a usage mask: OFTEN when requested,
\* else RARELY when requested, else none.
C12_Chosen(u, often, rarely) ==
    IF often \in u THEN {"MINIGBM_" \o often}
    ELSE IF rarely \in u THEN {"MINIGBM_" \o rarely}
    ELSE {}

\* C12 amended: with the protected bit the bind flags hold the protected
\* bind bit and no read/write-intent bit; otherwise they hold no protected
\* bit and, of each read/write pair, the OFTEN bit when OFTEN is requested,
\* else the RARELY bit when RARELY is requested, else neither: at most one
\* bit of a pair, and none when the usage requests neither.
C12_PriorityGroup ==
    call.fn = "compute_virgl_bind_flags" =>
        IF "PROTECTED" \in call.use_flags
        THEN /\ "MINIGBM_PROTECTED" \in call.result
             /\ call.result \cap (ReadBinds \cup WriteBinds) = {}
        ELSE /\ "MINIGBM_PROTECTED" \notin call.result
             /\ call.result \cap ReadBinds
                    = C12_Chosen(call.use_flags, "SW_READ_OFTEN",
                                 "SW_READ_RARELY")
             /\ call.result \cap WriteBinds
                    = C12_Chosen(call.use_flags, "SW_WRITE_OFTEN",
                                 "SW_WRITE_RARELY")
             /\ Cardinality(call.result \cap ReadBinds) <= 1
             /\ Cardinality(call.result \cap WriteBinds) <= 1

\* Witness of C12: both bits of both pairs requested, OFTEN wins twice.
C12_Witness ==
    /\ call.fn = "compute_virgl_bind_flags"
    /\ call.use_flags = {"SW_READ_OFTEN", "SW_READ_RARELY", "SW_WRITE_OFTEN",
                         "SW_WRITE_RARELY"}
    /\ call.result = {"SHARED", "MINIGBM_SW_READ_OFTEN",
                      "MINIGBM_SW_WRITE_OFTEN"}

\* The usage bits with a rule of their own, apart from the priority group.
PlainRuleBits ==
    {"TEXTURE", "RENDERING", "SCANOUT", "CURSOR", "LINEAR",
     "SENSOR_DIRECT_DATA", "GPU_DATA_BUFFER", "FRONT_RENDERING",
     "CAMERA_WRITE", "CAMERA_READ", "HW_VIDEO_DECODER", "HW_VIDEO_ENCODER"}

GroupBits ==
    {"PROTECTED", "SW_READ_OFTEN", "SW_READ_RARELY", "SW_WRITE_OFTEN",
     "SW_WRITE_RARELY"}

\* The bind bit of the rule of a usage bit.
RuleBind(bit) ==
    CASE bit = "TEXTURE" -> "SAMPLER_VIEW"
      [] bit = "RENDERING" -> "RENDER_TARGET"
      [] bit \in {"SCANOUT", "CURSOR"} -> bit
      [] bit \in {"LINEAR", "SENSOR_DIRECT_DATA", "GPU_DATA_BUFFER",
                  "FRONT_RENDERING"} -> "LINEAR"
      [] OTHER -> "MINIGBM_" \o bit

\* The requested bits whose rule runs.
RulesRun(u) ==
    (u \cap PlainRuleBits)
    \cup (IF "PROTECTED" \in u THEN {"PROTECTED"}
          ELSE {b \in u \cap GroupBits :
                   \/ b \in {"SW_READ_OFTEN", "SW_WRITE_OFTEN"}
                   \/ b = "SW_READ_RARELY" /\ "SW_READ_OFTEN" \notin u
                   \/ b = "SW_WRITE_RARELY" /\ "SW_WRITE_OFTEN" \notin u})

\* A usage for which C13 states an empty residue.
C13_Covered(u) ==
    /\ u \subseteq (PlainRuleBits \cup GroupBits) \ {"PROTECTED"}
    /\ ~{"SW_READ_OFTEN", "SW_READ_RARELY"} \subseteq u
    /\ ~{"SW_WRITE_OFTEN", "SW_WRITE_RARELY"} \subseteq u

\* C13: flag translation always sets the SHARED bind bit and, for each rule
\* whose usage bit is requested and which runs, sets that rule's bind bit
\* and clears the usage bit; the residue is exactly the requested bits no
\* rule consumed, empty for a usage of rule-covered bits without the
\* protected bit and with at most one bit of each read/write pair; {TEXTURE,
\* RENDERING, SW_READ_OFTEN, SW_WRITE_RARELY} gives {SHARED, SAMPLER_VIEW,
\* RENDER_TARGET, SW_READ_OFTEN, SW_WRITE_RARELY} and no residue; the bind
\* flags are those of the usage without its residue.
C13_BindAndResidue ==
    call.fn = "compute_virgl_bind_flags" =>
        LET u == call.use_flags
        IN  /\ "SHARED" \in call.result
            /\ call.result = {"SHARED"} \cup {RuleBind(b) : b \in RulesRun(u)}
            /\ call.residue = u \ RulesRun(u)
            /\ (C13_Covered(u) => call.residue = {})
            /\ (u = {"TEXTURE", "RENDERING", "SW_READ_OFTEN",
                      "SW_WRITE_RARELY"} =>
                    /\ call.result = {"SHARED", "SAMPLER_VIEW",
                                      "RENDER_TARGET", "MINIGBM_SW_READ_OFTEN",
                                      "MINIGBM_SW_WRITE_RARELY"}
                    /\ call.residue = {})
            /\ call.result = compute_virgl_bind_flags(u \ call.residue)

\* Witness of C13: a residue of an unnamed bit and of a bit the protected
\* bit suppresses.
C13_Witness ==
    /\ call.fn = "compute_virgl_bind_flags"
    /\ call.use_flags = {"TEXTURE", "PROTECTED", "SW_READ_OFTEN",
                         "RENDERSCRIPT"}
    /\ call.residue = {"SW_READ_OFTEN", "RENDERSCRIPT"}
    /\ call.result = {"SHARED", "SAMPLER_VIEW", "MINIGBM_PROTECTED"}

\* C14: resolve-format-and-use-flags is idempotent in 3D and in 2D mode:
\* for every (format, usage) and every capability set, applied to its own
\* output it returns that output unchanged.
C14_Idempotent ==
    call.fn = "virgl_resolve_format_and_use_flags" =>
        virgl_resolve_format_and_use_flags(call.params, call.priv,
                                           call.result.format,
                                           call.result.use_flags)
            = call.result

\* Witness of C14: in 3D mode a flexible format is resolved and loses the
\* scanout bit the host cannot honour.
C14_Witness ==
    /\ call.fn = "virgl_resolve_format_and_use_flags"
    /\ call.params.p3d
    /\ call.format = "FLEX_YCbCr_420_888"
    /\ "SCANOUT" \in call.use_flags
    /\ call.result = Resolved("NV12", call.use_flags \ {"SCANOUT"})

FlexImplCall ==
    /\ call.fn = "virgl_resolve_format_and_use_flags"
    /\ call.format = "FLEX_IMPLEMENTATION_DEFINED"

\* C15 as stated: the implementation-defined flexible format resolves to
\* NV12 with camera read or camera write usage and to XBGR8888 otherwise;
\* in 3D mode the resolved usage has the hardware-video-encoder bit cleared
\* and the linear bit set.
C15_Original ==
    FlexImplCall =>
        /\ call.result.format =
               (IF HasAny(call.use_flags, {"CAMERA_READ", "CAMERA_WRITE"})
                THEN "NV12" ELSE "XBGR8888")
        /\ (call.params.p3d =>
               /\ "HW_VIDEO_ENCODER" \notin call.result.use_flags
               /\ "LINEAR" \in call.result.use_flags)

\* C15 amended: the implementation-defined flexible format resolves to NV12
\* with camera read or camera write usage and to XBGR8888 otherwise; when
\* it resolves to XBGR8888 the resolved usage has the hardware-video-encoder
\* bit cleared (in both modes) and, in 3D mode, the linear bit set; when it
\* resolves to NV12 the encoder bit and the linear bit are as requested.
C15_FlexibleFormat ==
    FlexImplCall =>
        LET camera == HasAny(call.use_flags, {"CAMERA_READ", "CAMERA_WRITE"})
            out == call.result.use_flags
        IN  /\ call.result.format = (IF camera THEN "NV12" ELSE "XBGR8888")
            /\ IF camera
               THEN out \cap {"HW_VIDEO_ENCODER", "LINEAR"}
                        = call.use_flags \cap {"HW_VIDEO_ENCODER", "LINEAR"}
               ELSE /\ "HW_VIDEO_ENCODER" \notin out
                    /\ "LINEAR" \in out
                           <=> (call.params.p3d \/ "LINEAR" \in call.use_flags)
            /\ out \ {"SCANOUT", "LINEAR"}
                   = call.use_flags
                        \ ({"SCANOUT", "LINEAR"}
                           \cup (IF camera THEN {} ELSE {"HW_VIDEO_ENCODER"}))

\* Witness of C15: in 3D mode, a camera usage with the encoder bit.
C15_Witness ==
    /\ FlexImplCall
    /\ call.params.p3d
    /\ call.use_flags = {"CAMERA_WRITE", "HW_VIDEO_ENCODER"}
    /\ call.result = Resolved("NV12", {"CAMERA_WRITE", "HW_VIDEO_ENCODER"})

ScanoutCapable ==
    {"NV12", "ABGR8888", "ARGB8888", "RGB565", "XBGR8888", "XRGB8888"}

\* C16: resolve never adds the scanout bit; in 2D mode the output keeps
\* scanout only for the format XRGB8888; in 3D mode, for a scanout capable
\* format (NV12, ABGR8888, ARGB8888, RGB565, XBGR8888, XRGB8888) the output
\* has scanout iff the input requested it and the host natively supports
\* scanout of that format.
C16_Scanout ==
    call.fn = "virgl_resolve_format_and_use_flags" =>
        LET out == call.result
        IN  /\ ("SCANOUT" \in out.use_flags => "SCANOUT" \in call.use_flags)
            /\ (~call.params.p3d =>
                   ("SCANOUT" \in out.use_flags <=>
                        (call.format = "XRGB8888"
                         /\ "SCANOUT" \in call.use_flags)))
            /\ ((call.params.p3d /\ out.format \in ScanoutCapable) =>
                   ("SCANOUT" \in out.use_flags <=>
                        /\ "SCANOUT" \in call.use_flags
                        /\ LET c == call.priv.caps
                           IN  \/ c.max_version = 0
                               \/ call.priv.caps_is_v2 = 0
                               \/ translate_format(out.format) \in c.scanout))

\* Witness of C16: in 3D mode scanout is kept for a format the host scans
\* out and the host is one that does not scan out every capable format.
C16_Witness ==
    /\ call.fn = "virgl_resolve_format_and_use_flags"
    /\ call.params.p3d
    /\ call.priv.caps_is_v2 = 1
    /\ call.format = "XRGB8888"
    /\ "SCANOUT" \in call.result.use_flags
    /\ "B8G8R8A8_UNORM" \notin call.priv.caps.scanout

\* The usage of a candidate once scanout has been stripped for a host that
\* cannot natively scan out the format.
C17_Stripped(a) ==
    IF "SCANOUT" \in a.requested
       /\ ~virgl_supports_combination_natively(priv, a.format, {"SCANOUT"})
    THEN a.requested \ {"SCANOUT"} ELSE a.requested

Supported(f, u) ==
    \/ virgl_supports_combination_natively(priv, f, u)
    \/ virgl_supports_combination_through_emulation(priv, f, u)

\* The calls of the add operation that added an entry, in order.
C17_Added(adds) == SelectSeq(adds, LAMBDA a : a.added)

\* C17: in the state init leaves, in every mode, a candidate of the add
\* operation has added an entry iff, with scanout stripped when the host
\* cannot natively scan out the format, the pair is natively supported or
\* emulation-supported; the entry is stored with that usage; a candidate
\* failing both has added no entry (the table has one entry per admitted
\* candidate, in order); every entry added satisfies native-or-emulation
\* support for its stored usage.
C17_Admission ==
    (op.name = "init" /\ drv_state = "ready") =>
        /\ \A i \in 1..Len(op.arg) :
              LET a == op.arg[i]
              IN  /\ a.added <=> Supported(a.format, C17_Stripped(a))
                  /\ a.added =>
                        /\ a.stored = C17_Stripped(a)
                        /\ Supported(a.format, a.stored)
        /\ Len(combos) = Len(C17_Added(op.arg))
        /\ \A k \in 1..Len(combos) :
              /\ combos[k].format = C17_Added(op.arg)[k].format
              /\ C17_Added(op.arg)[k].stored \subseteq combos[k].use_flags

\* Witness of C17: one init in which a candidate was dropped, one was added
\* with scanout stripped through emulation, and one was added as requested.
C17_Witness ==
    /\ op.name = "init" /\ drv_state = "ready" /\ params.p3d
    /\ \E i, j, k \in 1..Len(op.arg) :
          /\ ~op.arg[i].added
          /\ op.arg[j].added
          /\ op.arg[j].stored # op.arg[j].requested
          /\ ~virgl_supports_combination_natively(priv, op.arg[j].format,
                                                  op.arg[j].stored)
          /\ op.arg[k].added
          /\ op.arg[k].stored = op.arg[k].requested

\* C18: for a buffer whose resolved (format, usage) an entry of the table
\* built at init covers, whenever the 3D creation path, invalidate or flush
\* finds the pair not natively supported it is emulation-supported: none of
\* the three assertions fails, also after invalidate has added the
\* rendering bit to the usage of the buffer.
C18_AssertionsHold ==
    (bo.covered /\ params.p3d) =>
        /\ ~op.aborted
        /\ bo.state # "aborted"
        /\ (bo.state \in {"new", "created"} =>
               Supported(bo.format, bo.use_flags))
        /\ (op.name \in Creates \cup {"invalidate", "flush"} =>
               Supported(op.pre.format, op.pre.use_flags))

\* Witness of C18: a covered buffer that is not natively supported has been
\* created on the 3D path and invalidated with a partial rectangle.
C18_Witness ==
    /\ bo.covered /\ params.p3d
    /\ bo.kind = "3d"
    /\ op.name = "invalidate"
    /\ Len(op.reqs) >= 3
    /\ ~virgl_supports_combination_natively(priv, bo.format, bo.use_flags)

\* A covered screen-capture buffer to which invalidate has added the
\* rendering bit, flushed afterwards.
C18_RenderingAdded ==
    /\ bo.covered /\ params.p3d
    /\ op.name = "flush" /\ op.reqs # <<>>
    /\ "ARC_SCREEN_CAP_PROBED" \in bo.use_flags
    /\ "RENDERING" \in bo.use_flags

\* The call C19 is about: an invalidate or a flush in 3D mode that was not
\* ended by a failed assertion.
C19_Call ==
    /\ op.name \in {"invalidate", "flush"}
    /\ params.p3d
    /\ ~op.aborted

C19_Rect == IF op.name = "invalidate" THEN op.arg ELSE op.arg[1]

C19_TransferName ==
    IF op.name = "invalidate" THEN "TRANSFER_FROM_HOST"
    ELSE "TRANSFER_TO_HOST"

\* The transfers and the waits among the requests of the call, in order.
C19_IsTransfer(r) == r.req \in {"TRANSFER_FROM_HOST", "TRANSFER_TO_HOST"}

C19_IsWait(r) == r.req = "WAIT"

C19_Xfers == SelectSeq(op.reqs, C19_IsTransfer)

C19_Waits == SelectSeq(op.reqs, C19_IsWait)

\* Every planned transfer was issued and succeeded.
C19_AllDone ==
    /\ \A i \in 1..Len(C19_Xfers) : C19_Xfers[i].ok
    /\ \E xp \in xfer_params_of(priv, bo, C19_Rect) :
          ~xp.abort /\ Len(C19_Xfers) = xp.xfers_needed

\* The transfers are the first boxes of the plan, in plane order, they come
\* one after another, a failed one is the last request of a call that
\* returned an error, and a wait comes only last, after the whole plan.
C19_Order ==
    /\ \E xp \in xfer_params_of(priv, bo, C19_Rect) :
          /\ ~xp.abort
          /\ Len(C19_Xfers) <= xp.xfers_needed
          /\ \A i \in 1..Len(C19_Xfers) :
                /\ C19_Xfers[i].req = C19_TransferName
                /\ C19_Xfers[i].box = xp.xfer_boxes[i]
    /\ \A i \in 1..Len(op.reqs) :
          /\ (C19_IsTransfer(op.reqs[i]) /\ i < Len(op.reqs)) =>
                \/ C19_IsTransfer(op.reqs[i + 1])
                \/ C19_IsWait(op.reqs[i + 1])
          /\ (C19_IsTransfer(op.reqs[i]) /\ ~op.reqs[i].ok) =>
                i = Len(op.reqs) /\ op.ret < 0
          /\ C19_IsWait(op.reqs[i]) =>
                i = Len(op.reqs) /\ C19_AllDone
                /\ (op.ret = 0 <=> op.reqs[i].ok)

\* The call got past its early success returns: an invalidate of a buffer
\* with a host-written usage, a flush of a writable mapping, and in both
\* cases not a mappable blob.
C19_PastEarlyReturns ==
    /\ ~(params.resource_blob /\ "USE_MAPPABLE" \in bo.tiling)
    /\ IF op.name = "invalidate"
       THEN HasAny(bo.use_flags, host_write_flags(bo))
       ELSE "BO_MAP_WRITE" \in op.arg[2]

\* The statement as written: every successful invalidate ends with a
\* successful wait after its last transfer, and every flush issues a wait
\* exactly when the usage has a non-GPU hardware consumer.
C19_Original ==
    C19_Call =>
        /\ C19_Order
        /\ (op.name = "invalidate" /\ op.ret = 0) =>
              C19_AllDone /\ Len(C19_Waits) = 1
        /\ op.name = "flush" =>
              (Len(C19_Waits) = 1 <=> HasAny(bo.use_flags, BO_USE_NON_GPU_HW))

\* C19: in an invalidate or flush in 3D mode the per-plane transfers are
\* issued one after another in plane order; a failed transfer ends the call
\* with an error and no later transfer or wait is issued; an invalidate that
\* got past its early success returns gives success only after the wait
\* that follows its last transfer has succeeded; a flush that got past its
\* early success returns and whose transfers all succeeded issues a wait
\* iff the usage of the buffer includes a non-GPU hardware consumer, and no
\* flush issues a wait without such a consumer.
C19_TransferWaitOrder ==
    C19_Call =>
        /\ C19_Order
        /\ (op.name = "invalidate" /\ op.ret = 0 /\ C19_PastEarlyReturns) =>
              C19_AllDone /\ Len(C19_Waits) = 1
        /\ (op.name = "flush" /\ C19_AllDone /\ C19_PastEarlyReturns) =>
              (Len(C19_Waits) = 1 <=> HasAny(bo.use_flags, BO_USE_NON_GPU_HW))
        /\ (op.name = "flush" /\ C19_Waits # <<>>) =>
              HasAny(bo.use_flags, BO_USE_NON_GPU_HW)

\* Witness of C19: an invalidate of a three-plane emulated buffer whose
\* second transfer failed.
C19_Witness ==
    /\ C19_Call
    /\ op.name = "invalidate"
    /\ bo.num_planes = 3
    /\ Len(C19_Xfers) = 2
    /\ ~C19_Xfers[2].ok
    /\ op.ret < 0

\* The operations on a created buffer other than the creation path.
C20_LaterOps == {"map", "invalidate", "flush", "resource_info"}

\* The descriptor without its usage flags.
C20_ButUsage(d) == [d EXCEPT !.use_flags = {}]

\* The statement as written: no later operation changes any field.
C20_Original ==
    op.name \in C20_LaterOps => Descriptor(bo) = op.pre

\* C20: after create has returned, map, flush and get-resource-info leave
\* every field of the buffer descriptor as it was; invalidate leaves every
\* field but the usage flags as it was, and changes the usage flags only in
\* 3D mode and only when they hold neither the screen-capture-probed bit nor
\* the rendering bit: it then adds the probed bit, and the rendering bit too
\* when the screen-capture probe of a one-plane 32-bit RGB buffer answers
\* yes.
C20_DescriptorFrame ==
    /\ op.name \in C20_LaterOps \ {"invalidate"} => Descriptor(bo) = op.pre
    /\ op.name = "invalidate" =>
          /\ C20_ButUsage(Descriptor(bo)) = C20_ButUsage(op.pre)
          /\ IF params.p3d
                /\ ~HasAny(op.pre.use_flags,
                           {"ARC_SCREEN_CAP_PROBED", "RENDERING"})
             THEN \/ bo.use_flags
                       = op.pre.use_flags \cup {"ARC_SCREEN_CAP_PROBED"}
                  \/ /\ bo.use_flags
                           = op.pre.use_flags
                             \cup {"ARC_SCREEN_CAP_PROBED", "RENDERING"}
                     /\ bo.num_planes = 1
                     /\ bo.format \in {"ABGR8888", "ARGB8888", "XRGB8888",
                                        "XBGR8888"}
                     /\ op.reqs # <<>>
                     /\ op.reqs[1].req = "PRIME_HANDLE_TO_FD"
                     /\ op.reqs[1].ok
             ELSE bo.use_flags = op.pre.use_flags

\* Witness of C20: an invalidate that added the rendering bit and then
\* transferred successfully.
C20_Witness ==
    /\ op.name = "invalidate"
    /\ op.ret = 0
    /\ "RENDERING" \in bo.use_flags
    /\ "RENDERING" \notin op.pre.use_flags
    /\ Len(op.reqs) = 3

\* The call C21 is about: the decomposer ran for an emulated buffer and a
\* lock rectangle inside the logical image.
C21_Call ==
    /\ call.fn = "xfer_params"
    /\ ~virgl_supports_combination_natively(call.priv, call.format,
                                            call.use_flags)
    /\ virgl_supports_combination_through_emulation(call.priv, call.format,
                                                    call.use_flags)
    /\ call.rect.x + call.rect.width <= call.width
    /\ call.rect.y + call.rect.height <= call.height

\* The emulated physical image of the buffer of the call.
C21_Physical ==
    CHOOSE m \in {virgl_get_emulated_metadata(
                      drv_bo_new(call.width, call.height, call.format,
                                 call.use_flags), u) : u \in UninitMetadata} :
        TRUE

\* Box b lies in the rows [first, first + count).
C21_InRows(b, first, count) ==
    b.y >= first /\ b.y + b.height <= first + count

\* C21: for an emulated buffer and a lock rectangle inside the logical
\* image, every transfer rectangle of the decomposer lies inside the
\* emulated physical image, and every chroma rectangle lies inside the rows
\* of its own plane: rows [H, H + ceil(H/2)) for the second plane, rows
\* [H + ceil(H/2), H + 2 * ceil(H/2)) for the third.
C21_Containment ==
    C21_Call =>
        /\ ~call.result.abort
        /\ \A i \in 1..call.result.xfers_needed :
              LET b == call.result.xfer_boxes[i]
              IN  /\ b.x + b.width <= C21_Physical.width
                  /\ b.y + b.height <= C21_Physical.height
        /\ call.result.xfers_needed >= 2 =>
              /\ C21_InRows(call.result.xfer_boxes[2], call.height,
                            CeilHalf(call.height))
              /\ call.result.xfers_needed >= 3 =>
                    C21_InRows(call.result.xfer_boxes[3],
                               call.height + CeilHalf(call.height),
                               CeilHalf(call.height))

\* The failing input of C21: the last row of a bi-planar 4 x 4 buffer.  The
\* chroma rectangle starts at row y + H = 7 of a physical image of 6 rows.
C21_FailingInput ==
    /\ C21_Call
    /\ call.format = "NV12"
    /\ call.width = 4 /\ call.height = 4
    /\ call.rect = Rect(0, 3, 4, 1)
    /\ C21_Physical.height = 6
    /\ call.result.xfer_boxes = <<Rect(0, 3, 4, 1), Rect(0, 7, 4, 1)>>

====
